---- MODULE Spec2Model ----
(***************************************************************************)
(* Model of the legal-section search backend:                              *)
(*   Backend/app/services/hf_search_service.py        (embedding client,   *)
(*       cache, cosine similarity, semantic and keyword ranking)           *)
(*   Backend/app/services/universal_search_service.py (query expansion,    *)
(*       retrieval, search_sections)                                       *)
(* Python strings are TLA+ strings; a character is a string of length 1.   *)
(* The characters are those of Unicode up to U+00FF.                       *)
(* A Python dict is a function from keys to values; an insertion-ordered   *)
(* dict whose order matters (the embedding cache) is a sequence of         *)
(* [key, value] records.                                                   *)
(***************************************************************************)
EXTENDS Integers, Sequences, FiniteSets, TLC

(***************************************************************************)
(* Program constants                                                       *)
(***************************************************************************)
CacheKeyChars == 200      \* cache_key = text[:200]
CacheLimit == 1000        \* if len(self.embedding_cache) > 1000
EvictCount == 100         \* list(self.embedding_cache.keys())[:100]
\* a retry budget of one
retriesOne == 2 - 1

retries == 2                \* retries = 2
InitialBackoff == 2       \* backoff = 2.0
DescriptionChars == 500   \* section.get('description', '')[:500]

(***************************************************************************)
(* Python string primitives                                                *)
(***************************************************************************)
\* the letters the LOWER and LIKE of SQLite fold
AsciiUpperSet == {"A", "B", "C", "D", "E", "F", "G", "H", "I", "J", "K", "L", "M",
                  "N", "O", "P", "Q", "R", "S", "T", "U", "V", "W", "X", "Y", "Z"}
\* the characters c with c.lower() # c
UpperChars == "ABCDEFGHIJKLMNOPQRSTUVWXYZÀÁÂÃÄÅÆÇÈÉÊËÌÍÎÏÐÑÒÓÔÕÖØÙÚÛÜÝÞ"
\* their c.lower(), in the same order
LowerChars == "abcdefghijklmnopqrstuvwxyzàáâãäåæçèéêëìíîïðñòóôõöøùúûüýþ"
\* the characters c with c.isdigit()
DigitChars == "0123456789²³¹"
\* the characters c with c.isspace(): what split() separates at and strip() removes
WhiteChars == " \t\n\f\r "

CharAt(s, i) == SubSeq(s, i, i)

UpperSet == {CharAt(UpperChars, i) : i \in 1..Len(UpperChars)}
WhiteSet == {CharAt(WhiteChars, i) : i \in 1..Len(WhiteChars)}
DigitSet == {CharAt(DigitChars, i) : i \in 1..Len(DigitChars)}
LowerOf == [c \in UpperSet |->
               CharAt(LowerChars, CHOOSE i \in 1..Len(UpperChars) : CharAt(UpperChars, i) = c)]

\* str.lower() of one character
LowerChar(c) == IF c \in UpperSet THEN LowerOf[c] ELSE c

RECURSIVE lower(_)
\* str.lower()
lower(s) == IF Len(s) = 0 THEN "" ELSE lower(SubSeq(s, 1, Len(s) - 1)) \o LowerChar(CharAt(s, Len(s)))

RECURSIVE AsciiLower(_)
\* the case folding of LOWER and LIKE in SQLite: the letters A-Z only
AsciiLower(s) ==
    IF Len(s) = 0 THEN ""
    ELSE LET c == CharAt(s, Len(s))
         IN  AsciiLower(SubSeq(s, 1, Len(s) - 1))
             \o (IF c \in AsciiUpperSet THEN LowerOf[c] ELSE c)

\* s[:n] for n >= 0
Prefix(s, n) == SubSeq(s, 1, IF Len(s) < n THEN Len(s) ELSE n)

\* a in b, for strings
Contains(b, a) == \E i \in 0..(Len(b) - Len(a)) : SubSeq(b, i + 1, i + Len(a)) = a

RECURSIVE RemoveSpaces(_)
\* s.replace(' ', '')
RemoveSpaces(s) ==
    IF Len(s) = 0 THEN ""
    ELSE LET r == RemoveSpaces(SubSeq(s, 1, Len(s) - 1))
             c == CharAt(s, Len(s))
         IN  IF c = " " THEN r ELSE r \o c

RECURSIVE SplitFrom(_, _, _)
\* the words of s[i..], given the word cur read so far
SplitFrom(s, i, cur) ==
    IF i > Len(s) THEN (IF cur = "" THEN <<>> ELSE <<cur>>)
    ELSE IF CharAt(s, i) \in WhiteSet
         THEN (IF cur = "" THEN <<>> ELSE <<cur>>) \o SplitFrom(s, i + 1, "")
         ELSE SplitFrom(s, i + 1, cur \o CharAt(s, i))

\* str.split(): the whitespace-separated words, in order
split(s) == SplitFrom(s, 1, "")

RECURSIVE strip(_)
\* str.strip()
strip(s) ==
    IF Len(s) = 0 THEN ""
    ELSE IF CharAt(s, 1) \in WhiteSet THEN strip(SubSeq(s, 2, Len(s)))
    ELSE IF CharAt(s, Len(s)) \in WhiteSet THEN strip(SubSeq(s, 1, Len(s) - 1))
    ELSE s

\* str.isdigit()
isdigit(s) == Len(s) > 0 /\ \A i \in 1..Len(s) : CharAt(s, i) \in DigitSet

\* set(seq)
SeqToSet(q) == {q[i] : i \in 1..Len(q)}

(***************************************************************************)
(* universal_search_service.py: query expansion and retrieval              *)
(***************************************************************************)
\* the synonym table of _expand_query, in its iteration (insertion) order
expansions == <<
    <<"domestic violence", "domestic violence cruelty wife husband woman">>,
    <<"domestic abuse", "domestic violence cruelty wife husband woman">>,
    <<"wife beating", "cruelty domestic violence husband woman">>,
    <<"marital violence", "cruelty domestic violence husband wife">>,
    <<"dowry", "dowry cruelty harassment woman">>,
    <<"rape", "rape sexual assault intercourse">>,
    <<"sexual assault", "sexual assault rape intercourse">>,
    <<"sexual harassment", "sexual harassment assault">>,
    <<"molestation", "molestation sexual assault">>,
    <<"cybercrime", "cybercrime electronic computer digital online document record">>,
    <<"cyber crime", "cybercrime electronic computer digital online document record">>,
    <<"hacking", "hacking electronic computer unauthorized access">>,
    <<"online fraud", "fraud electronic computer cheating online">>,
    <<"digital fraud", "fraud electronic computer cheating digital">>,
    <<"phishing", "phishing fraud cheating electronic">>,
    <<"identity theft", "identity theft fraud cheating forgery electronic">>,
    <<"data theft", "theft electronic computer document record">>,
    <<"computer crime", "computer electronic digital document record">>,
    <<"kidnapping", "kidnapping abduction">>,
    <<"abduction", "abduction kidnapping">>,
    <<"murder", "murder culpable homicide death killing">>,
    <<"theft", "theft stealing robbery extortion">>,
    <<"robbery", "robbery theft dacoity extortion">>,
    <<"burglary", "burglary theft house breaking">>,
    <<"extortion", "extortion robbery threat">>,
    <<"fraud", "fraud cheating forgery deception">>,
    <<"cheating", "cheating fraud deception forgery">>,
    <<"forgery", "forgery fraud cheating document">>,
    <<"embezzlement", "embezzlement theft cheating fraud">>,
    <<"bribery", "bribery corruption gratification">>,
    <<"corruption", "corruption bribery gratification">>,
    <<"assault", "assault hurt injury violence">>,
    <<"defamation", "defamation reputation harm">>,
    <<"harassment", "harassment intimidation threat">>
>>

RECURSIVE ExpandFrom(_, _)
\* the loop of _expand_query from table entry i on: the first key that occurs
\* in the lowercased query decides; with no such key the query is returned
ExpandFrom(query, i) ==
    IF i > Len(expansions) THEN query
    ELSE IF Contains(lower(query), expansions[i][1]) THEN expansions[i][2]
    ELSE ExpandFrom(query, i + 1)

\* an expansion where the last matching key of the table wins
_expand_queryLastMatch(query) ==
    LET hits == {i \in 1..Len(expansions) : Contains(lower(query), expansions[i][1])}
    IN  IF hits = {} THEN query
        ELSE expansions[CHOOSE i \in hits : \A j \in hits : j <= i][2]

_expand_query(query) == ExpandFrom(query, 1)

stop_words == {"and", "or", "the", "of", "in", "on", "at", "to", "for", "with",
               "a", "an", "is", "are", "was", "were", "be", "been", "has", "have",
               "that", "this", "by", "from", "as", "it", "its"}

KeepTerm(term) == term \notin stop_words /\ Len(term) > 2

\* the search terms search_sections derives from the expanded query, with the
\* words of the query itself when none is kept; <<>> when the expanded query
\* is blank (then no search condition is added at all)
TermsOf(expanded, query) ==
    LET kept == SelectSeq(split(lower(strip(expanded))), KeepTerm)
    IN  IF strip(expanded) = "" THEN <<>>
        ELSE IF Len(kept) = 0 THEN split(strip(query))
        ELSE kept

search_terms(query) == TermsOf(_expand_query(query), query)

RECURSIVE LikeFrom(_, _, _, _)
\* SQL LIKE: does value[i..] match pattern[j..] ('%' any run, '_' any one character)
LikeFrom(value, i, pattern, j) ==
    IF j > Len(pattern) THEN i > Len(value)
    ELSE IF CharAt(pattern, j) = "%"
         THEN LikeFrom(value, i, pattern, j + 1)
              \/ (i <= Len(value) /\ LikeFrom(value, i + 1, pattern, j))
    ELSE /\ i <= Len(value)
         /\ (CharAt(pattern, j) = "_" \/ CharAt(pattern, j) = CharAt(value, i))
         /\ LikeFrom(value, i + 1, pattern, j + 1)

\* LOWER(col) LIKE LOWER(?) in SQLite: no escape character
ILike(value, pattern) == LikeFrom(AsciiLower(value), 1, AsciiLower(pattern), 1)

RECURSIVE PgLikeFrom(_, _, _, _)
\* PostgreSQL LIKE: as LikeFrom, and a backslash makes the character after it
\* stand for itself (a pattern of search_sections ends in '%', so a backslash
\* always has a character after it)
PgLikeFrom(value, i, pattern, j) ==
    IF j > Len(pattern) THEN i > Len(value)
    ELSE IF CharAt(pattern, j) = "\\"
         THEN /\ j < Len(pattern)
              /\ i <= Len(value)
              /\ CharAt(pattern, j + 1) = CharAt(value, i)
              /\ PgLikeFrom(value, i + 1, pattern, j + 2)
    ELSE IF CharAt(pattern, j) = "%"
         THEN PgLikeFrom(value, i, pattern, j + 1)
              \/ (i <= Len(value) /\ PgLikeFrom(value, i + 1, pattern, j))
    ELSE /\ i <= Len(value)
         /\ (CharAt(pattern, j) = "_" \/ CharAt(pattern, j) = CharAt(value, i))
         /\ PgLikeFrom(value, i + 1, pattern, j + 1)

\* col ILIKE %s in PostgreSQL
PgILike(value, pattern) == PgLikeFrom(lower(value), 1, lower(pattern), 1)

\* the comparison of a column with a pattern, as the dialect in use makes it
ColumnMatches(value, pattern, is_pg) ==
    IF is_pg THEN PgILike(value, pattern) ELSE ILike(value, pattern)

\* one search condition of the WHERE clause, for one search term
TermMatches(row, term, is_pg) ==
    LET search_term == "%" \o term \o "%"
    IN  IF isdigit(term)
        THEN ColumnMatches(row.section_number, search_term, is_pg)
        ELSE \/ ColumnMatches(row.title, search_term, is_pg)
             \/ ColumnMatches(row.description, search_term, is_pg)
             \/ ColumnMatches(row.category, search_term, is_pg)

FilterColumns == <<"category", "section_number", "bailable", "cognizable">>

\* sql_query before any condition is added
BaseSql == "\n            SELECT \n                id, section_code, section_number, title, description,\n                category, punishment, source, last_updated\n            FROM law_sections \n            WHERE 1=1\n            "

_get_like_operator(is_pg) == IF is_pg THEN "ILIKE" ELSE "LIKE"

_get_param_placeholder(is_pg) == IF is_pg THEN "%s" ELSE "?"

\* the search condition appended for a term that is all digits
NumberCondition(is_pg) ==
    "section_number " \o _get_like_operator(is_pg) \o " " \o _get_param_placeholder(is_pg)

\* the search condition appended for any other term
TextCondition(is_pg) ==
    LET like_op == _get_like_operator(is_pg)
        ph == _get_param_placeholder(is_pg)
    IN  IF is_pg
        THEN "\n                                (title " \o like_op \o " " \o ph \o " OR \n                                 description " \o like_op \o " " \o ph \o " OR\n                                 category " \o like_op \o " " \o ph \o ")\n                            "
        ELSE "\n                                (LOWER(title) " \o like_op \o " LOWER(" \o ph \o ") OR \n                                 LOWER(description) " \o like_op \o " LOWER(" \o ph \o ") OR\n                                 LOWER(category) " \o like_op \o " LOWER(" \o ph \o "))\n                            "

RECURSIVE JoinFrom(_, _, _)
JoinFrom(sep, parts, i) ==
    IF i > Len(parts) THEN ""
    ELSE (IF i > 1 THEN sep ELSE "") \o parts[i] \o JoinFrom(sep, parts, i + 1)

\* sep.join(parts)
Join(sep, parts) == JoinFrom(sep, parts, 1)

RECURSIVE Flatten(_)
Flatten(seqs) == IF Len(seqs) = 0 THEN <<>> ELSE Head(seqs) \o Flatten(Tail(seqs))

\* a parameter list with two parameters for a term that is not a number
TermParamsTwo(term) ==
    LET search_term == "%" \o term \o "%"
    IN  IF isdigit(term) THEN <<search_term>> ELSE <<search_term, search_term>>

\* the parameters appended for one term
TermParams(term) ==
    LET search_term == "%" \o term \o "%"
    IN  IF isdigit(term) THEN <<search_term>> ELSE <<search_term, search_term, search_term>>

\* if 'col' in filters and filters['col']
FilterApplied(filters, col) == col \in DOMAIN filters /\ filters[col] # ""

\* the filter columns whose clause is appended, in the order of the code
AppliedFilters(filters) ==
    SelectSeq(FilterColumns, LAMBDA col : FilterApplied(filters, col))

\* the SQL text and the parameter list search_sections hands to cursor.execute
BuildQuery(query, expanded, filters, is_pg) ==
    LET terms == TermsOf(expanded, query)
        search_conditions ==
            [i \in 1..Len(terms) |->
                IF isdigit(terms[i]) THEN NumberCondition(is_pg) ELSE TextCondition(is_pg)]
        applied == AppliedFilters(filters)
    IN  [sql |-> BaseSql
                 \o (IF Len(search_conditions) > 0
                     THEN " AND (" \o Join(" OR ", search_conditions) \o ")" ELSE "")
                 \o Join("", [i \in 1..Len(applied) |->
                                 " AND " \o applied[i] \o " = " \o _get_param_placeholder(is_pg)]),
         params |-> Flatten([i \in 1..Len(terms) |-> TermParams(terms[i])])
                    \o [i \in 1..Len(applied) |-> filters[applied[i]]]]

\* the AND-ed equality filters: a filter applies when its key is present and
\* its value is truthy (non-empty)
FiltersMatch(row, filters) ==
    \A i \in 1..Len(FilterColumns) :
        LET col == FilterColumns[i]
        IN  (col \in DOMAIN filters /\ filters[col] # "") => row[col] = filters[col]

\* the WHERE clause built by search_sections
RowSelected(row, query, filters, is_pg) ==
    LET terms == search_terms(query)
    IN  /\ (Len(terms) > 0 => \E i \in 1..Len(terms) : TermMatches(row, terms[i], is_pg))
        /\ FiltersMatch(row, filters)

\* the columns of the SELECT list that ranking reads
Project(row) == [id |-> row.id, section_code |-> row.section_code,
                 section_number |-> row.section_number, title |-> row.title,
                 description |-> row.description, category |-> row.category]

RECURSIVE FetchFrom(_, _, _, _, _)
FetchFrom(table, i, query, filters, is_pg) ==
    IF i > Len(table) THEN <<>>
    ELSE (IF RowSelected(table[i], query, filters, is_pg) THEN <<Project(table[i])>> ELSE <<>>)
         \o FetchFrom(table, i + 1, query, filters, is_pg)

\* cursor.execute + fetchall + dict(row): the selected rows in table order
FetchRows(table, query, filters, is_pg) == FetchFrom(table, 1, query, filters, is_pg)


(***************************************************************************)
(* hf_search_service.py: values                                            *)
(***************************************************************************)
\* A value get_embedding can return: None (rank 0), a flat list of numbers
\* (rank 1, possibly empty), or a list of lists as the provider sends for
\* token-level output (rank 2).
None == [rank |-> 0, v |-> <<>>]
Vec(v) == [rank |-> 1, v |-> v]
Nested(v) == [rank |-> 2, v |-> v]

\* a test that takes every value for an embedding
TruthyAlways(e) == TRUE

\* Python truthiness of such a value: None and [] are falsy
Truthy(e) == e.rank = 2 \/ (e.rank = 1 /\ Len(e.v) > 0)

\* d.get(k, default)
Get(d, k, default) == IF k \in DOMAIN d THEN d[k] ELSE default

\* d[k] = v
SetKey(d, k, v) == (k :> v) @@ d

\* a slice that keeps one element too many
SliceOffByOne(seq, n) == SubSeq(seq, 1, IF Len(seq) < n + 1 THEN Len(seq) ELSE n + 1)

\* seq[:n] (a negative n counts from the end)
Slice(seq, n) ==
    IF n >= 0 THEN SubSeq(seq, 1, IF Len(seq) < n THEN Len(seq) ELSE n)
    ELSE SubSeq(seq, 1, Len(seq) + n)

RECURSIVE SumTo(_, _)
SumTo(f, n) == IF n = 0 THEN 0 ELSE SumTo(f, n - 1) + f[n]

\* math.sqrt on the perfect squares the model's vectors produce
ISqrt(n) == CHOOSE r \in 0..n : r * r = n

\* cosine_similarity raises TypeError when an element is not a number
CosineRaises(e1, e2) == e1.rank = 2 \/ e2.rank = 2

\* cosine_similarity on flat vectors whose norms and cosine are integers
cosine_similarity(vec1, vec2) ==
    LET n == IF Len(vec1) < Len(vec2) THEN Len(vec1) ELSE Len(vec2)
        dot_product == SumTo([i \in 1..n |-> vec1[i] * vec2[i]], n)
        magnitude1 == ISqrt(SumTo([i \in 1..Len(vec1) |-> vec1[i] * vec1[i]], Len(vec1)))
        magnitude2 == ISqrt(SumTo([i \in 1..Len(vec2) |-> vec2[i] * vec2[i]], Len(vec2)))
    IN  IF magnitude1 = 0 \/ magnitude2 = 0 THEN 0
        ELSE dot_product \div (magnitude1 * magnitude2)

(***************************************************************************)
(* hf_search_service.py: ranking                                           *)
(***************************************************************************)
Bit(b) == IF b THEN 1 ELSE 0

\* a score with the weights of the title and description matches exchanged
keyword_scoreSwapped(section, query) ==
    LET query_lower == lower(query)
        query_terms == SeqToSet(split(query_lower))
        title == lower(section["title"])
        description == lower(section["description"])
        category == lower(section["category"])
        title_terms == SeqToSet(split(title))
        desc_terms == SeqToSet(split(description))
    IN    15 * Bit(Contains(title, query_lower))
        + 30 * Bit(Contains(RemoveSpaces(title), RemoveSpaces(query_lower)))
        + 10 * Cardinality(query_terms \cap title_terms)
        + 50 * Bit(Contains(description, query_lower))
        + 5 * Cardinality(query_terms \cap desc_terms)
        + 8 * Bit(Contains(category, query_lower))

\* a score that counts a query term once per occurrence in the query
keyword_scorePerOccurrence(section, query) ==
    LET query_lower == lower(query)
        query_terms == split(query_lower)
        title == lower(section["title"])
        description == lower(section["description"])
        category == lower(section["category"])
        title_terms == SeqToSet(split(title))
        desc_terms == SeqToSet(split(description))
    IN    50 * Bit(Contains(title, query_lower))
        + 30 * Bit(Contains(RemoveSpaces(title), RemoveSpaces(query_lower)))
        + 10 * Len(SelectSeq(query_terms, LAMBDA t : t \in title_terms))
        + 15 * Bit(Contains(description, query_lower))
        + 5 * Len(SelectSeq(query_terms, LAMBDA t : t \in desc_terms))
        + 8 * Bit(Contains(category, query_lower))

\* the additive point score keyword_rank gives one section
keyword_score(section, query) ==
    LET query_lower == lower(query)
        query_terms == SeqToSet(split(query_lower))
        title == lower(section["title"])
        description == lower(section["description"])
        category == lower(section["category"])
        title_terms == SeqToSet(split(title))
        desc_terms == SeqToSet(split(description))
    IN    50 * Bit(Contains(title, query_lower))
        + 30 * Bit(Contains(RemoveSpaces(title), RemoveSpaces(query_lower)))
        + 10 * Cardinality(query_terms \cap title_terms)
        + 15 * Bit(Contains(description, query_lower))
        + 5 * Cardinality(query_terms \cap desc_terms)
        + 8 * Bit(Contains(category, query_lower))

\* an insertion that puts e before the elements of equal key
InsertDescBeforeTies(sorted, e, field) ==
    LET k == Get(e, field, 0)
        before == Cardinality({j \in 1..Len(sorted) : Get(sorted[j], field, 0) > k})
    IN  SubSeq(sorted, 1, before) \o <<e>> \o SubSeq(sorted, before + 1, Len(sorted))

\* list.insert keeping a descending order stable: e goes after every element
\* whose key is >= its own
InsertDesc(sorted, e, field) ==
    LET k == Get(e, field, 0)
        before == Cardinality({j \in 1..Len(sorted) : Get(sorted[j], field, 0) >= k})
    IN  SubSeq(sorted, 1, before) \o <<e>> \o SubSeq(sorted, before + 1, Len(sorted))

RECURSIVE SortedTo(_, _, _)
SortedTo(seq, n, field) ==
    IF n = 0 THEN <<>> ELSE InsertDesc(SortedTo(seq, n - 1, field), seq[n], field)

\* a ranking that leaves the retrieval order as it is
SortedDescUnsorted(seq, field) == seq

\* sorted(seq, key=lambda x: x.get(field, 0), reverse=True): stable, descending
SortedDesc(seq, field) == SortedTo(seq, Len(seq), field)

\* keyword_rank: score every section, then sort by relevance_score
keyword_rank(secs, query) ==
    SortedDesc([i \in 1..Len(secs) |->
                   SetKey(secs[i], "relevance_score", keyword_score(secs[i], query))],
               "relevance_score")

\* the text embedded for a candidate: title, a space, description[:500]
SectionText(section) ==
    Get(section, "title", "") \o " " \o Prefix(Get(section, "description", ""), DescriptionChars)

(***************************************************************************)
(* Bounds and input sets of the model                                      *)
(***************************************************************************)
\* the law_sections table, in the order the database returns its rows: a
\* SELECT without ORDER BY gives them by ascending id, the primary key;
\* rows 3 and 4 carry the same title and description
law_sections == <<
    [id |-> 1, section_code |-> "IPC 299", section_number |-> "299",
     title |-> "Culpable Homicide", description |-> "an act causing death is murder when intended",
     category |-> "Body", bailable |-> "Non-bailable", cognizable |-> "Cognizable"],
    [id |-> 2, section_code |-> "IPC 302", section_number |-> "302",
     title |-> "Punishment for Murder", description |-> "death for culpable homicide",
     category |-> "Body", bailable |-> "Non-bailable", cognizable |-> "Cognizable"],
    [id |-> 3, section_code |-> "IT 65", section_number |-> "65",
     title |-> "Tampering with Computer Source Documents",
     description |-> "conceals computer source code",
     category |-> "Technology", bailable |-> "Bailable", cognizable |-> "Cognizable"],
    [id |-> 4, section_code |-> "ITAA 65", section_number |-> "65",
     title |-> "Tampering with Computer Source Documents",
     description |-> "conceals computer source code",
     category |-> "Technology", bailable |-> "Bailable", cognizable |-> "Non-cognizable"] >>

\* the query of a search request: a string of at least 3 characters
\* (min_length=3 in SearchRequest and in the GET route)
Queries == {"murder", "cyber", "hacking", " 65", "   "}
NoFilters == <<>>
FilterChoices == {NoFilters, [category |-> "Body"], [category |-> "", cognizable |-> "Cognizable"]}
MaxResultsChoices == {-1, 1, 2, 100}
\* where retrieval can raise: _get_connection, cursor.execute, dict(row)
Faults == {"none", "connect", "execute", "convert"}
\* the fault makes the call raise: dict(row) runs only when a row was fetched
Raises(flt, rows) == flt \in {"connect", "execute"} \/ (flt = "convert" /\ Len(rows) > 0)

\* what one feature_extraction call can do: return a list or an ndarray,
\* return something else, or raise
ErrorMessages == {"Model BAAI/bge-small-en-v1.5 is currently loading",
                  "503 Service Unavailable",
                  "429 Too Many Requests",
                  "Rate limit reached",
                  "Connection reset by peer"}
Embeddings == {Vec(<<1, 0>>), Vec(<<-1, 0>>), Nested(<<1, 0>>)}
ProviderOutcomes ==
    [kind : {"list", "ndarray"}, value : Embeddings, msg : {""}]
    \cup [kind : {"other"}, value : {None}, msg : {""}]
    \cup [kind : {"error"}, value : {None}, msg : ErrorMessages]

(***************************************************************************)
(* get_suggestions, get_section_by_code, get_categories                    *)
(***************************************************************************)
SuggestionChars == 50     \* row_dict['title'][:50]
SuggestionLimit == 5      \* LIMIT 5
SuggestionMinChars == 2   \* len(query) < 2

\* the characters in the order of their code points
CodeChars == "\t\n\f\r !\"#$%&'()*+,-./0123456789:;<=>?@ABCDEFGHIJKLMNOPQRSTUVWXYZ[\\]^_abcdefghijklmnopqrstuvwxyz{|}~ ¡¢£¤¥¦§¨©ª«¬­®¯°±²³´µ¶·¸¹º»¼½¾¿ÀÁÂÃÄÅÆÇÈÉÊËÌÍÎÏÐÑÒÓÔÕÖ×ØÙÚÛÜÝÞßàáâãäåæçèéêëìíîïðñòóôõö÷øùúûüýþÿ"

RECURSIVE StrLess(_, _)
\* a < b in the BINARY collation of SQLite: by code points, a proper prefix first
StrLess(a, b) ==
    IF Len(b) = 0 THEN FALSE
    ELSE IF Len(a) = 0 THEN TRUE
    ELSE IF CharAt(a, 1) = CharAt(b, 1) THEN StrLess(SubSeq(a, 2, Len(a)), SubSeq(b, 2, Len(b)))
    ELSE LET Code(c) == CHOOSE i \in 1..Len(CodeChars) : CharAt(CodeChars, i) = c
         IN  Code(CharAt(a, 1)) < Code(CharAt(b, 1))

RECURSIVE Distinct(_)
\* SELECT DISTINCT: the rows in the order they are met, each once
Distinct(seq) ==
    IF Len(seq) = 0 THEN <<>>
    ELSE LET r == Distinct(SubSeq(seq, 1, Len(seq) - 1))
             e == seq[Len(seq)]
         IN  IF e \in SeqToSet(r) THEN r ELSE Append(r, e)

RECURSIVE OrderBy(_)
\* ORDER BY of a column of distinct strings, given as their set
OrderBy(S) ==
    IF S = {} THEN <<>>
    ELSE LET least == CHOOSE x \in S : \A y \in S \ {x} : StrLess(x, y)
         IN  <<least>> \o OrderBy(S \ {least})

\* what an operation hands back: its value, whether the connection it opened
\* is still open, and where it raised
OpResult(ret, open, flt) == [ret |-> ret, conn_open |-> open, fault |-> flt]

\* the rows of SELECT DISTINCT section_code, title ... LIMIT 5
SuggestionRows(table, q, is_pg) ==
    LET search_term == "%" \o q \o "%"
        hit(row) == ColumnMatches(row.section_code, search_term, is_pg)
                    \/ ColumnMatches(row.title, search_term, is_pg)
        hits == SelectSeq(table, hit)
        pairs == [i \in 1..Len(hits) |-> [section_code |-> hits[i].section_code, title |-> hits[i].title]]
    IN  Slice(Distinct(pairs), SuggestionLimit)

\* f"{row_dict['section_code']}: {row_dict['title'][:50]}"
Suggestion(row) == row.section_code \o ": " \o Prefix(row.title, SuggestionChars)

\* get_suggestions(query): no connection is made for a query shorter than 2
\* characters; conn.close() comes after fetchall and before the rows are
\* converted; the except clause returns [] and closes nothing
GetSuggestions(table, q, flt, is_pg) ==
    IF Len(q) < SuggestionMinChars THEN OpResult(<<>>, FALSE, "none")
    ELSE IF flt = "connect" THEN OpResult(<<>>, FALSE, flt)
    ELSE IF flt = "execute" THEN OpResult(<<>>, TRUE, flt)
    ELSE LET rows == SuggestionRows(table, q, is_pg)
         IN  IF flt = "convert" /\ Len(rows) > 0 THEN OpResult(<<>>, FALSE, flt)
             ELSE OpResult([i \in 1..Len(rows) |-> Suggestion(rows[i])], FALSE, "none")

\* get_section_by_code(section_code): the first row with that code as a list
\* of one record, None as the empty list
GetSectionByCode(table, section_code, flt) ==
    IF flt = "connect" THEN OpResult(<<>>, FALSE, flt)
    ELSE IF flt = "execute" THEN OpResult(<<>>, TRUE, flt)
    ELSE LET rows == SelectSeq(table, LAMBDA row : row.section_code = section_code)
         IN  IF Len(rows) = 0 THEN OpResult(<<>>, FALSE, "none")
             ELSE IF flt = "convert" THEN OpResult(<<>>, FALSE, flt)
             ELSE OpResult(<<Head(rows)>>, FALSE, "none")

\* get_categories(): SELECT DISTINCT category ... ORDER BY category; the
\* rows are read by index or key, there is no dict(row) to raise
GetCategories(table, flt) ==
    IF flt = "connect" THEN OpResult(<<>>, FALSE, flt)
    ELSE IF flt = "execute" THEN OpResult(<<>>, TRUE, flt)
    ELSE OpResult(OrderBy({table[i].category : i \in 1..Len(table)}), FALSE, "none")

\* request.search_type
SearchTypes == {"section_search", "case_search", "qa_search", "similarity_search"}
\* section codes asked for
SectionCodes == {"IPC 302", "ipc 302", "ITAA 65", "IPC"}
\* queries get_suggestions is called with by a caller other than the route
SuggestionQueries == {"", "a", "IPC", "tampering", "IT 65", "%"}

(***************************************************************************)
(* State                                                                   *)
(***************************************************************************)
VARIABLES
    hf_api_key,        \* HUGGINGFACE_API_KEY is set (process environment)
    client,            \* self.client is an InferenceClient (not None)
    embedding_cache,   \* self.embedding_cache, in insertion order
    pc,                \* where the running call stands
    query,             \* search_sections: query
    max_results,       \* search_sections: max_results
    rank_query,        \* rank_by_semantic_similarity: query
    response,          \* the SearchResult the route handler returned, or NoResponse
    sections,          \* the candidate list being ranked
    idx,               \* rank_by_semantic_similarity: index of the loop
    query_embedding,   \* rank_by_semantic_similarity: query_embedding
    ge_for,            \* who called get_embedding: "query", "section", "direct"
    ge_text,           \* get_embedding: text
    attempt,           \* get_embedding: attempt
    backoff,           \* get_embedding: backoff
    ge_ret,            \* the value get_embedding returned
    result,            \* the list search_sections returned
    conn_open,         \* the connection of the running search call is open
    \* history of the running call, read by the properties only
    candidates,        \* the rows retrieval produced
    fault,             \* where retrieval raised in this call, or "none"
    raised,            \* "no", or how an exception left search_sections
    query_exhausted,   \* get_embedding(query) gave up after retries + 1 errors
    ranked_by,         \* "none", "keyword" or "semantic"
    cand_absent,       \* a candidate's embedding came back falsy
    embed_requests,    \* get_embedding calls made by this search call
    outcomes,          \* what the provider did in this get_embedding call
    slept,             \* the time.sleep arguments of this get_embedding call
    calls,             \* direct get_embedding calls made on this instance
    seen,              \* an earlier direct call: its text, what it returned and which call it was, or NoSeen
    \* the retrieval and keyword-ranking steps of search_sections, one by one
    rt_pc,             \* the step reached: "off" when they are not run apart
    rt_query,          \* search_sections: query
    rt_filters,        \* search_sections: filters
    is_postgres,       \* self.is_postgres
    rt_expanded,       \* search_sections: expanded_query
    rt_terms,          \* search_sections: search_terms
    rt_sql,            \* search_sections: sql_query
    rt_params,         \* search_sections: params
    rt_rows,           \* search_sections: sections, as retrieval filled it
    rt_ranked,         \* the list keyword_rank returned
    rt_again,          \* the list a second keyword_rank call returned
    rt_prev,           \* query and terms of the search made before this one
    \* the process across requests
    follow_process,    \* the requests of one process are followed one after the other
    earlier,           \* cache keys whose vector an earlier request of the process cached
    \* threads of one process
    th,                \* get_embedding called by two threads on one instance: the locals of each
    cache0,            \* the cache before the threads called
    sched,             \* the thread the interpreter runs, and how often it has taken a thread off
    _client_instance,  \* the module global: NoClient (None) or the client object, by its number
    lru,               \* the lru_cache of get_inference_client
    ctor,              \* HuggingFaceSearchService() called by several threads: the locals of each
    constructed,       \* InferenceClient objects constructed so far in the process
    \* the other operations of UniversalSearchService
    op,                \* the operation that ran last: "none", "get_suggestions", "get_section_by_code", "get_categories"
    op_ret,            \* what it returned
    op_conn_open,      \* the connection it opened is open
    op_fault           \* where it raised, or "none"

NoSeen == [text |-> "", ret |-> None, n |-> 0]
NoResponse == [query |-> "", search_type |-> "", total_results |-> -1, results |-> <<>>, suggestions |-> <<>>]

svc_vars == <<hf_api_key, client, embedding_cache, calls>>
call_vars == <<query, max_results, rank_query, response, sections, idx, query_embedding, result, conn_open,
               candidates, fault, raised, query_exhausted, ranked_by, cand_absent>>
ge_vars == <<ge_for, ge_text, attempt, backoff, ge_ret, outcomes, slept>>
rt_vars == <<rt_pc, rt_query, rt_filters, is_postgres, rt_expanded, rt_terms, rt_sql,
             rt_params, rt_rows, rt_ranked, rt_again, rt_prev>>
op_vars == <<op, op_ret, op_conn_open, op_fault>>
proc_core == <<follow_process, th, cache0, sched, _client_instance, lru, ctor, constructed>>
proc_rest == <<proc_core, op_vars>>
proc_vars == <<earlier, proc_rest>>
vars == <<svc_vars, call_vars, ge_vars, pc, embed_requests, seen, rt_vars, proc_vars>>

NoPrev == [query |-> "", terms |-> <<>>, set |-> FALSE]

\* the locals of the retrieval steps before the first of them has run
RtLocalsInit ==
    /\ rt_expanded = ""
    /\ rt_terms = <<>>
    /\ rt_sql = ""
    /\ rt_params = <<>>
    /\ rt_rows = <<>>
    /\ rt_ranked = <<>>
    /\ rt_again = <<>>

Threads == {1, 2}

\* the threads that construct a service
Constructors == {1, 2, 3}

\* None, where a client object is numbered from 1
NoClient == 0

\* a thread that has not called HuggingFaceSearchService() yet
CtorIdle == [pc |-> "idle", new |-> NoClient, ret |-> NoClient, client |-> NoClient]

\* the module as imported, before any service is constructed
ClientOff ==
    /\ _client_instance = NoClient
    /\ lru = [full |-> FALSE, value |-> NoClient]
    /\ ctor = [t \in Constructors |-> CtorIdle]
    /\ constructed = 0

\* the locals of a get_embedding call no thread has made yet, with the number
\* of provider calls it made and of KeyErrors its deletions got
ThIdle == [pc |-> "idle", text |-> "", attempt |-> 0, backoff |-> 0, embedding |-> None,
           oldest_keys |-> <<>>, k |-> 0, ret |-> None, provider_calls |-> 0, key_errors |-> 0]

\* no thread has run yet
NoSched == [running |-> 0, switches |-> 0]

\* requests are looked at one by one, with no memory of earlier ones, and no
\* second thread runs
ProcOff ==
    /\ follow_process = FALSE
    /\ earlier = {}
    /\ th = [t \in Threads |-> ThIdle]
    /\ cache0 = <<>>
    /\ ClientOff
    /\ sched = NoSched

\* the retrieval steps are not run apart from search_sections
RtOff ==
    /\ rt_pc = "off"
    /\ rt_query = ""
    /\ rt_filters = <<>>
    /\ is_postgres = FALSE
    /\ rt_prev = NoPrev
    /\ RtLocalsInit

\* the environment a process can run with: no key, or a key with the client
\* created, or a key with the client creation failed (get_inference_client
\* returned None)
InitService ==
    /\ hf_api_key \in BOOLEAN
    /\ client \in BOOLEAN
    /\ client => hf_api_key
    /\ calls = 0
    /\ seen = NoSeen

InitCall ==
    /\ pc = "idle"
    /\ query = ""
    /\ max_results = 0
    /\ rank_query = ""
    /\ response = NoResponse
    /\ sections = <<>>
    /\ idx = 0
    /\ query_embedding = None
    /\ ge_for = "none"
    /\ ge_text = ""
    /\ attempt = 0
    /\ backoff = 0
    /\ ge_ret = None
    /\ result = <<>>
    /\ conn_open = FALSE
    /\ candidates = <<>>
    /\ fault = "none"
    /\ raised = "no"
    /\ query_exhausted = FALSE
    /\ ranked_by = "none"
    /\ cand_absent = FALSE
    /\ embed_requests = 0
    /\ outcomes = <<>>
    /\ slept = <<>>
    /\ op = "none"
    /\ op_ret = <<>>
    /\ op_conn_open = FALSE
    /\ op_fault = "none"

Init == InitService /\ InitCall /\ embedding_cache = <<>> /\ RtOff /\ ProcOff

(***************************************************************************)
(* The embedding cache                                                     *)
(***************************************************************************)
CacheHas(cache, key) == \E i \in 1..Len(cache) : cache[i].key = key

CacheGet(cache, key) == cache[CHOOSE i \in 1..Len(cache) : cache[i].key = key].value

\* cache[key] = value: a new key goes last, an existing key keeps its place
CachePut(cache, key, value) ==
    IF CacheHas(cache, key)
    THEN [i \in 1..Len(cache) |->
              IF cache[i].key = key THEN [key |-> key, value |-> value] ELSE cache[i]]
    ELSE Append(cache, [key |-> key, value |-> value])

\* an eviction that deletes the newest EvictCount keys
CacheTrimNewest(cache) ==
    IF Len(cache) > CacheLimit THEN SubSeq(cache, 1, Len(cache) - EvictCount) ELSE cache

\* the size limit: over CacheLimit entries, delete the first EvictCount keys
CacheTrim(cache) ==
    IF Len(cache) > CacheLimit THEN SubSeq(cache, EvictCount + 1, Len(cache)) ELSE cache

\* a key made of the whole text
cache_keyWholeText(text) == text

\* cache_key = text[:200]
cache_key(text) == Prefix(text, CacheKeyChars)

(***************************************************************************)
(* get_embedding                                                           *)
(***************************************************************************)
\* the call self.get_embedding(text) made for who
CallEmbedding(text, who) ==
    /\ ge_text' = text
    /\ ge_for' = who
    /\ pc' = "get_embedding"

\* get_embedding has returned and its caller took the value: its locals are gone
DropFrame ==
    /\ attempt' = 0
    /\ backoff' = 0
    /\ ge_ret' = None
    /\ outcomes' = <<>>
    /\ slept' = <<>>

\* a get_embedding without the client check
ClientMissingNever == FALSE

\* if not self.client
ClientMissing == ~client

\* entry of get_embedding(ge_text): no client, a cache hit, or the retry loop
get_embedding ==
    /\ pc = "get_embedding"
    /\ embed_requests' = embed_requests + 1
    /\ IF ClientMissing
       THEN /\ ge_ret' = None
            /\ pc' = "returned"
            /\ UNCHANGED <<attempt, backoff>>
       ELSE IF CacheHas(embedding_cache, cache_key(ge_text))
       THEN /\ ge_ret' = CacheGet(embedding_cache, cache_key(ge_text))
            /\ pc' = "returned"
            /\ UNCHANGED <<attempt, backoff>>
       ELSE /\ attempt' = 0
            /\ backoff' = InitialBackoff
            /\ pc' = "provider"
            /\ UNCHANGED ge_ret
    /\ UNCHANGED <<svc_vars, call_vars, ge_for, ge_text, outcomes, slept, seen>>
    /\ UNCHANGED <<rt_vars, proc_vars>>

IsLoading(msg) == Contains(lower(msg), "loading") \/ Contains(lower(msg), "503")
IsRateLimit(msg) == Contains(lower(msg), "rate limit") \/ Contains(lower(msg), "429")

RECURSIVE Pow2(_)
Pow2(n) == IF n = 0 THEN 1 ELSE 2 * Pow2(n - 1)

\* the branch of the except clause an error message takes
ErrorClass(msg) ==
    IF IsLoading(msg) THEN "loading" ELSE IF IsRateLimit(msg) THEN "rate_limit" ELSE "error"

ErrorClasses == {"loading", "rate_limit", "error"}

\* what the history keeps of a provider outcome
Brief(o) == [kind |-> IF o.kind \in {"list", "ndarray"} THEN "vector"
                      ELSE IF o.kind = "error" THEN ErrorClass(o.msg)
                      ELSE o.kind,
             value |-> o.value]

\* a get_embedding that stores the absent value it returns
CacheAfterAbsentStored(cache, key) == CachePut(cache, key, None)

\* return None: the paths that return None leave the cache as it is
CacheAfterAbsent(cache, key) == cache

\* one iteration of the retry loop: the provider call and what follows it
feature_extraction(o) ==
    /\ pc = "provider"
    /\ outcomes' = Append(outcomes, Brief(o))
    /\ IF o.kind \in {"list", "ndarray"}
       THEN /\ embedding_cache' = CacheTrim(CachePut(embedding_cache, cache_key(ge_text), o.value))
            /\ ge_ret' = o.value
            /\ pc' = "returned"
            /\ UNCHANGED <<attempt, backoff, slept>>
       ELSE IF o.kind = "other"
       THEN /\ ge_ret' = None
            /\ pc' = "returned"
            /\ embedding_cache' = CacheAfterAbsent(embedding_cache, cache_key(ge_text))
            /\ UNCHANGED <<attempt, backoff, slept>>
       ELSE /\ IF attempt < retries
               THEN /\ IF ErrorClass(o.msg) \in {"loading", "rate_limit"}
                       THEN /\ slept' = Append(slept, backoff * Pow2(attempt))
                            /\ UNCHANGED backoff
                       ELSE /\ slept' = Append(slept, backoff)
                            /\ backoff' = backoff * 2
                    /\ attempt' = attempt + 1
                    /\ UNCHANGED <<pc, ge_ret, embedding_cache>>
               ELSE /\ ge_ret' = None
                    /\ pc' = "returned"
                    /\ embedding_cache' = CacheAfterAbsent(embedding_cache, cache_key(ge_text))
                    /\ UNCHANGED <<attempt, backoff, slept>>
    /\ UNCHANGED <<hf_api_key, client, calls, call_vars, ge_for, ge_text, embed_requests, seen>>
    /\ UNCHANGED <<rt_vars, proc_vars>>

(***************************************************************************)
(* search_sections and rank_by_semantic_similarity                         *)
(***************************************************************************)
\* the end of search_sections once the candidates are ranked:
\* sections = sections[:max_results]; return sections
ReturnRanked(ranked, m, how) ==
    /\ sections' = ranked
    /\ result' = Slice(ranked, m)
    /\ ranked_by' = how
    /\ pc' = "done"

\* an except clause that lets the exception through
ExceptClauseReraise == [raised |-> "escaped", value |-> <<>>]

\* except Exception as e: logger.error(...); return []
ExceptClause == [raised |-> "caught", value |-> <<>>]

\* a search_sections that ranks whatever retrieval gave
ShouldRankAlways(rows) == TRUE

\* if sections: (search_sections calls the ranking only for a non-empty list)
ShouldRank(rows) == Len(rows) > 0

\* if not self.hf_api_key or not sections: return self.keyword_rank(sections, query)
KeywordOnly(rows) == ~hf_api_key \/ Len(rows) = 0

\* a call that ranks with the text retrieval used
RankingQueryExpanded(q, expanded) == expanded

\* self.hf_service.rank_by_semantic_similarity(sections, query): the text the
\* ranking is given, out of the query and the expanded query
RankingQuery(q, expanded) == q

\* a search_sections that leaves its connection as it is
CloseConnectionSkipped(open) == open

\* conn.close(): the connection is closed
CloseConnection(open) == FALSE

\* A search request: the route handler builds a UniversalSearchService (whose
\* HuggingFaceSearchService starts with an empty cache and the process's
\* client) and calls search_sections, modelled here up to the first embedding
\* request: expansion, retrieval, closing the connection, and the
\* keyword-only paths in full.
search_sections(q, filters, m, flt) ==
    /\ pc = "idle"
    /\ calls = 0
    /\ embedding_cache' = <<>>
    /\ query' = q
    /\ max_results' = m
    /\ rank_query' = RankingQuery(q, _expand_query(q))
    /\ response' = NoResponse
    /\ embed_requests' = 0
    /\ fault' = IF Raises(flt, FetchRows(law_sections, q, filters, is_postgres)) THEN flt ELSE "none"
    /\ IF Raises(flt, FetchRows(law_sections, q, filters, is_postgres))
       THEN \* the exception is caught by the except clause of search_sections;
            \* conn.close() was not reached if the connection had been made
            /\ conn_open' = (flt # "connect")
            /\ raised' = ExceptClause.raised
            /\ result' = ExceptClause.value
            /\ candidates' = <<>>
            /\ sections' = <<>>
            /\ ranked_by' = "none"
            /\ pc' = "done"
            /\ UNCHANGED <<ge_for, ge_text>>
       ELSE LET rows == FetchRows(law_sections, q, filters, is_postgres)
            IN  /\ conn_open' = CloseConnection(TRUE)
                /\ raised' = "no"
                /\ candidates' = rows
                /\ IF ~ShouldRank(rows)
                   THEN /\ ReturnRanked(rows, m, "none")
                        /\ UNCHANGED <<ge_for, ge_text>>
                   ELSE IF KeywordOnly(rows)
                   THEN /\ ReturnRanked(keyword_rank(rows, rank_query'), m, "keyword")
                        /\ UNCHANGED <<ge_for, ge_text>>
                   ELSE /\ sections' = rows
                        /\ result' = <<>>
                        /\ ranked_by' = "none"
                        /\ CallEmbedding(rank_query', "query")
    /\ UNCHANGED <<hf_api_key, client, calls, seen, idx, query_embedding, query_exhausted,
                   cand_absent, attempt, backoff, ge_ret, outcomes, slept>>
    /\ UNCHANGED <<rt_vars, proc_vars>>

\* rank_by_semantic_similarity after get_embedding(query) returned
rank_query_embedded ==
    /\ pc = "returned"
    /\ ge_for = "query"
    /\ query_embedding' = ge_ret
    /\ query_exhausted' = (Len(outcomes) = retries + 1 /\ outcomes[Len(outcomes)].kind \in ErrorClasses)
    /\ DropFrame
    /\ IF ~Truthy(ge_ret)
       THEN /\ ReturnRanked(keyword_rank(sections, rank_query), max_results, "keyword")
            /\ UNCHANGED <<idx, ge_for, ge_text>>
       ELSE /\ idx' = 1
            /\ CallEmbedding(SectionText(sections[1]), "section")
            /\ UNCHANGED <<sections, result, ranked_by>>
    /\ UNCHANGED <<svc_vars, query, max_results, rank_query, response, conn_open, candidates,
                   fault, raised, cand_absent, embed_requests, seen>>
    /\ UNCHANGED <<rt_vars, proc_vars>>

\* the body of the loop over sections, for one section with its embedding e
ScoreSection(section, e) ==
    LET similarity == IF Truthy(e) THEN cosine_similarity(query_embedding.v, e.v) ELSE 0
    IN  SetKey(SetKey(section, "similarity_score", similarity), "relevance_score", similarity)

\* rank_by_semantic_similarity after get_embedding(text) returned for
\* sections[idx]: score it, then embed the next one or sort and return
rank_section_embedded ==
    /\ pc = "returned"
    /\ ge_for = "section"
    /\ cand_absent' = (cand_absent \/ ~Truthy(ge_ret))
    /\ DropFrame
    /\ IF Truthy(ge_ret) /\ CosineRaises(query_embedding, ge_ret)
       THEN \* except clause: keyword_rank over the sections as they stand
            /\ ReturnRanked(keyword_rank(sections, rank_query), max_results, "keyword")
            /\ UNCHANGED <<idx, ge_for, ge_text>>
       ELSE LET scored == [sections EXCEPT ![idx] = ScoreSection(sections[idx], ge_ret)]
            IN  IF idx < Len(sections)
                THEN /\ sections' = scored
                     /\ idx' = idx + 1
                     /\ CallEmbedding(SectionText(sections[idx + 1]), "section")
                     /\ UNCHANGED <<result, ranked_by>>
                ELSE /\ ReturnRanked(SortedDesc(scored, "similarity_score"), max_results, "semantic")
                     /\ UNCHANGED <<idx, ge_for, ge_text>>
    /\ UNCHANGED <<svc_vars, query, max_results, rank_query, response, query_embedding,
                   conn_open, candidates, fault, raised, query_exhausted, embed_requests, seen>>
    /\ UNCHANGED <<rt_vars, proc_vars>>

\* the POST route, after search_sections returned: it calls
\* search_service.get_suggestions(request.query) for the SearchResult
get_suggestions(flt) ==
    /\ pc = "done"
    /\ LET r == GetSuggestions(law_sections, query, flt, is_postgres)
       IN  /\ op' = "get_suggestions"
           /\ op_ret' = r.ret
           /\ op_conn_open' = r.conn_open
           /\ op_fault' = r.fault
    /\ pc' = "suggested"
    /\ UNCHANGED <<svc_vars, call_vars, ge_vars, embed_requests, seen>>
    /\ UNCHANGED <<rt_vars, earlier, proc_core>>

\* the POST route with a search_type other than section_search: the service
\* is built, nothing is searched, the SearchResult is empty
search_other(q, st) ==
    /\ pc = "idle"
    /\ calls = 0
    /\ st # "section_search"
    /\ query' = q
    /\ response' = [query |-> q, search_type |-> st, total_results |-> 0,
                    results |-> <<>>, suggestions |-> <<>>]
    /\ pc' = "responded"
    /\ UNCHANGED <<svc_vars, max_results, rank_query, sections, idx, query_embedding,
                   result, conn_open, candidates, fault, raised, query_exhausted, ranked_by,
                   cand_absent, ge_vars, embed_requests, seen>>
    /\ UNCHANGED <<rt_vars, proc_vars>>

\* a caller invokes one of the other operations on a service it has built
OpReturns(name, r) ==
    /\ pc = "idle"
    /\ calls = 0
    /\ op' = name
    /\ op_ret' = r.ret
    /\ op_conn_open' = r.conn_open
    /\ op_fault' = r.fault
    /\ pc' = "op_returned"
    /\ UNCHANGED <<svc_vars, call_vars, ge_vars, embed_requests, seen>>
    /\ UNCHANGED <<rt_vars, earlier, proc_core>>

call_get_suggestions(q, flt) ==
    OpReturns("get_suggestions", GetSuggestions(law_sections, q, flt, is_postgres))

get_section_by_code(section_code, flt) ==
    OpReturns("get_section_by_code", GetSectionByCode(law_sections, section_code, flt))

get_categories(flt) ==
    OpReturns("get_categories", GetCategories(law_sections, flt))

\* the route handler, after search_sections returned (and, in the POST route,
\* get_suggestions): it builds the SearchResult with the query of the request
\* and the list it got
respond ==
    /\ pc \in {"done", "suggested"}
    /\ response' = [query |-> query, search_type |-> "section_search",
                    total_results |-> Len(result), results |-> result,
                    suggestions |-> IF pc = "suggested" THEN op_ret ELSE <<>>]
    /\ pc' = "responded"
    /\ UNCHANGED <<svc_vars, query, max_results, rank_query, sections, idx, query_embedding,
                   result, conn_open, candidates, fault, raised, query_exhausted, ranked_by,
                   cand_absent, ge_vars, embed_requests, seen>>
    /\ UNCHANGED <<rt_vars, proc_vars>>

\* the route handler has sent its response, or the direct caller is through
\* with its instance: the service object and the locals of the call are gone
finish ==
    /\ pc \in {"responded", "op_returned"} \/ (pc = "idle" /\ calls > 0)
    /\ pc' = "idle"
    /\ calls' = 0
    /\ seen' = NoSeen
    /\ embedding_cache' = <<>>
    /\ query' = ""
    /\ max_results' = 0
    /\ rank_query' = ""
    /\ response' = NoResponse
    /\ sections' = <<>>
    /\ idx' = 0
    /\ query_embedding' = None
    /\ ge_for' = "none"
    /\ ge_text' = ""
    /\ result' = <<>>
    /\ conn_open' = FALSE
    /\ candidates' = <<>>
    /\ fault' = "none"
    /\ raised' = "no"
    /\ query_exhausted' = FALSE
    /\ ranked_by' = "none"
    /\ cand_absent' = FALSE
    /\ embed_requests' = 0
    /\ DropFrame
    /\ UNCHANGED <<hf_api_key, client>>
    /\ earlier' = IF follow_process THEN earlier \cup {embedding_cache[i].key : i \in 1..Len(embedding_cache)}
                  ELSE earlier
    /\ op' = "none"
    /\ op_ret' = <<>>
    /\ op_conn_open' = FALSE
    /\ op_fault' = "none"
    /\ UNCHANGED <<rt_vars, proc_core>>

(***************************************************************************)
(* get_embedding called directly on one long-lived service instance        *)
(***************************************************************************)
MaxDirectCalls == 2       \* get_embedding calls made on the instance

RECURSIVE IntStr(_)
\* str(n) for n >= 0
IntStr(n) ==
    IF n < 10 THEN CharAt(DigitChars, n + 1)
    ELSE IntStr(n \div 10) \o CharAt(DigitChars, (n % 10) + 1)

RECURSIVE Repeat(_, _)
\* c * n
Repeat(c, n) ==
    IF n = 0 THEN ""
    ELSE IF n % 2 = 0 THEN LET half == Repeat(c, n \div 2) IN half \o half
    ELSE Repeat(c, n - 1) \o c

\* the cache after get_embedding succeeded for the texts "1", "2", ..., str(n)
\* on a new instance: the insertion that makes the length pass CacheLimit
\* removes the EvictCount oldest entries, so the texts up to str(evicted) are
\* gone and the others are there in the order of their insertion
Prefilled(n) ==
    LET overflows == IF n <= CacheLimit THEN 0
                     ELSE (n - CacheLimit + EvictCount - 1) \div EvictCount
        evicted == EvictCount * overflows
    IN  [i \in 1..(n - evicted) |-> [key |-> IntStr(evicted + i), value |-> Vec(<<1, 0>>)]]

\* texts embedded directly: the oldest cached one, a new short one, and two
\* long ones that agree on their first CacheKeyChars characters only
LongPrefix == Repeat("a", CacheKeyChars)
DirectTexts == {"1", "new", LongPrefix \o "x", LongPrefix \o "y"}

DirectOutcomes ==
    [kind : {"list"}, value : {Vec(<<1, 0>>), Vec(<<-1, 0>>)}, msg : {""}]
    \cup [kind : {"error"}, value : {None}, msg : {"503 Service Unavailable"}]

InitCache ==
    /\ InitCall
    /\ hf_api_key = TRUE
    /\ client = TRUE
    /\ calls = 0
    /\ seen = NoSeen
    /\ embedding_cache \in {Prefilled(n) : n \in {CacheLimit - 1, CacheLimit}}
    /\ RtOff
    /\ ProcOff

\* a caller invokes service.get_embedding(text)
call_get_embedding(text) ==
    /\ pc = "idle"
    /\ calls < MaxDirectCalls
    /\ calls' = calls + 1
    /\ CallEmbedding(text, "direct")
    /\ UNCHANGED <<hf_api_key, client, embedding_cache, call_vars, attempt, backoff, ge_ret,
                   outcomes, slept, embed_requests, seen>>
    /\ UNCHANGED <<rt_vars, proc_vars>>

\* the caller has the value; it may be the call later calls are compared with
direct_return(remember) ==
    /\ pc = "returned"
    /\ ge_for = "direct"
    /\ pc' = "idle"
    /\ seen' = IF remember THEN [text |-> ge_text, ret |-> ge_ret, n |-> calls] ELSE seen
    /\ ge_for' = "none"
    /\ ge_text' = ""
    /\ DropFrame
    /\ UNCHANGED <<svc_vars, call_vars, embed_requests>>
    /\ UNCHANGED <<rt_vars, proc_vars>>

Next ==
    \/ \E q \in Queries, f \in FilterChoices, m \in MaxResultsChoices, flt \in Faults :
           search_sections(q, f, m, flt)
    \/ get_embedding
    \/ \E o \in ProviderOutcomes : feature_extraction(o)
    \/ rank_query_embedded
    \/ rank_section_embedded
    \/ \E flt \in Faults : get_suggestions(flt)
    \/ respond
    \/ \E q \in Queries, st \in SearchTypes : search_other(q, st)
    \/ \E q \in SuggestionQueries, flt \in Faults : call_get_suggestions(q, flt)
    \/ \E section_code \in SectionCodes, flt \in Faults : get_section_by_code(section_code, flt)
    \/ \E flt \in Faults \ {"convert"} : get_categories(flt)
    \/ finish
    \/ \E text \in DirectTexts : call_get_embedding(text)
    \/ \E remember \in BOOLEAN : direct_return(remember)

Spec == Init /\ [][Next]_vars

NextCache ==
    \/ \E text \in DirectTexts : call_get_embedding(text)
    \/ get_embedding
    \/ \E o \in DirectOutcomes : feature_extraction(o)
    \/ \E remember \in BOOLEAN : direct_return(remember)

SpecCache == InitCache /\ [][NextCache]_vars

(***************************************************************************)
(* search_sections without a credential, step by step: expansion, the SQL  *)
(* text and its parameters, retrieval, keyword_rank                        *)
(***************************************************************************)
\* every key of the synonym table, and queries that take the other paths
RtQueries ==
    {expansions[i][1] : i \in 1..Len(expansions)}
    \cup {"cyber", "65", "   ", "___", "the of", "IPC 302", "murder murder",
          "Punishment for MURDER", "Data THEFT", "homicide", "death computer",
          "d\\eath", "IPC\t302", " \t\n", "É 302", "²"}

RtFilters ==
    FilterChoices
    \cup {[category |-> "Body", section_number |-> "302",
           bailable |-> "Non-bailable", cognizable |-> "Cognizable"]}

InitRetrieval ==
    /\ InitCall
    /\ hf_api_key = FALSE
    /\ client = FALSE
    /\ embedding_cache = <<>>
    /\ calls = 0
    /\ seen = NoSeen
    /\ rt_pc = "start"
    /\ rt_query \in RtQueries
    /\ rt_filters \in RtFilters
    /\ is_postgres \in BOOLEAN
    /\ rt_prev = NoPrev
    /\ RtLocalsInit
    /\ ProcOff

main_vars == <<svc_vars, call_vars, ge_vars, pc, embed_requests, seen>>

\* expanded_query = self._expand_query(query)
rt_expand ==
    /\ rt_pc = "start"
    /\ rt_expanded' = _expand_query(rt_query)
    /\ rt_pc' = "expanded"
    /\ UNCHANGED <<main_vars, proc_vars, rt_query, rt_filters, is_postgres, rt_terms, rt_sql, rt_params,
                   rt_rows, rt_ranked, rt_again, rt_prev>>

\* the search terms, the SQL text and the parameter list
rt_build ==
    /\ rt_pc = "expanded"
    /\ rt_terms' = TermsOf(rt_expanded, rt_query)
    /\ LET built == BuildQuery(rt_query, rt_expanded, rt_filters, is_postgres)
       IN  /\ rt_sql' = built.sql
           /\ rt_params' = built.params
    /\ rt_pc' = "built"
    /\ UNCHANGED <<main_vars, proc_vars, rt_query, rt_filters, is_postgres, rt_expanded, rt_rows,
                   rt_ranked, rt_again, rt_prev>>

\* cursor.execute(sql_query, params); rows = cursor.fetchall(); dict(row)
rt_execute ==
    /\ rt_pc = "built"
    /\ rt_rows' = FetchRows(law_sections, rt_query, rt_filters, is_postgres)
    /\ rt_pc' = "fetched"
    /\ UNCHANGED <<main_vars, proc_vars, rt_query, rt_filters, is_postgres, rt_expanded, rt_terms,
                   rt_sql, rt_params, rt_ranked, rt_again, rt_prev>>

\* keyword_rank writes relevance_score into the dicts of the list it is given
ScoredInPlace(secs, q) ==
    [i \in 1..Len(secs) |-> SetKey(secs[i], "relevance_score", keyword_score(secs[i], q))]

\* if sections: rank_by_semantic_similarity -> keyword_rank(sections, query)
rt_keyword_rank ==
    /\ rt_pc = "fetched"
    /\ ShouldRank(rt_rows)
    /\ rt_ranked' = keyword_rank(rt_rows, rt_query)
    /\ rt_rows' = ScoredInPlace(rt_rows, rt_query)
    /\ rt_pc' = "ranked"
    /\ UNCHANGED <<main_vars, proc_vars, rt_query, rt_filters, is_postgres, rt_expanded, rt_terms,
                   rt_sql, rt_params, rt_again, rt_prev>>

\* keyword_rank called once more with the same query, on the list it returned
\* or on the list it was given
rt_rank_again(on_output) ==
    /\ rt_pc = "ranked"
    /\ rt_again' = keyword_rank(IF on_output THEN rt_ranked ELSE rt_rows, rt_query)
    /\ rt_pc' = IF on_output THEN "reranked" ELSE "repeated"
    /\ UNCHANGED <<main_vars, proc_vars, rt_query, rt_filters, is_postgres, rt_expanded, rt_terms,
                   rt_sql, rt_params, rt_rows, rt_ranked, rt_prev>>

\* the caller searches again, with the expanded text as the query
rt_resubmit ==
    /\ rt_pc = "built"
    /\ ~rt_prev.set
    /\ rt_prev' = [query |-> rt_query, terms |-> rt_terms, set |-> TRUE]
    /\ rt_query' = rt_expanded
    /\ rt_pc' = "start"
    /\ rt_expanded' = ""
    /\ rt_terms' = <<>>
    /\ rt_sql' = ""
    /\ rt_params' = <<>>
    /\ UNCHANGED <<main_vars, proc_vars, rt_filters, is_postgres, rt_rows, rt_ranked, rt_again>>

NextRetrieval ==
    \/ rt_expand
    \/ rt_build
    \/ rt_execute
    \/ rt_keyword_rank
    \/ \E on_output \in BOOLEAN : rt_rank_again(on_output)
    \/ rt_resubmit

SpecRetrieval == InitRetrieval /\ [][NextRetrieval]_vars

(***************************************************************************)
(* One process serving search requests one after the other, with a         *)
(* credential and a client and a database that answers. The POST route     *)
(* asks get_suggestions before it builds the SearchResult, the GET route   *)
(* builds it right after the search.                                       *)
(***************************************************************************)
ProcessQueries == {"murder", "hacking"}

InitProcess ==
    /\ InitCall
    /\ hf_api_key = TRUE
    /\ client = TRUE
    /\ embedding_cache = <<>>
    /\ calls = 0
    /\ seen = NoSeen
    /\ RtOff
    /\ follow_process = TRUE
    /\ earlier = {}
    /\ th = [t \in Threads |-> ThIdle]
    /\ cache0 = <<>>
    /\ ClientOff
    /\ sched = NoSched

NextProcess ==
    \/ \E q \in ProcessQueries : search_sections(q, NoFilters, 100, "none")
    \/ get_embedding
    \/ \E o \in DirectOutcomes : feature_extraction(o)
    \/ rank_query_embedded
    \/ rank_section_embedded
    \/ get_suggestions("none")
    \/ respond
    \/ finish

SpecProcess == InitProcess /\ [][NextProcess]_vars

(***************************************************************************)
(* get_embedding called by two threads on one service instance whose cache *)
(* is at its limit. A step is one statement of get_embedding, one turn for *)
(* the deletion loop, the wait in time.sleep being left by a step of its   *)
(* own; the interpreter can switch threads between any two                 *)
(* steps (and at more places, which adds interleavings to those here); the *)
(* behaviours followed are those where it takes a thread off in the middle *)
(* of its call at most MaxSwitches times.                                  *)
(* The provider answers every request with a vector.                       *)
(***************************************************************************)
MaxSwitches == 3          \* times the interpreter takes a thread off in the middle of its call

\* the first thread asks for a new text or for the oldest cached one, the
\* second for the same new text or for another
ThreadTexts(t) == IF t = 1 THEN {"x", "1"} ELSE {"x", "y"}
ThreadVector == Vec(<<1, 0>>)

InitThreads ==
    /\ InitCall
    /\ hf_api_key = TRUE
    /\ client = TRUE
    /\ calls = 0
    /\ seen = NoSeen
    /\ embedding_cache \in {Prefilled(n) : n \in {CacheLimit - 1, CacheLimit}}
    /\ cache0 = embedding_cache
    /\ th = [t \in Threads |-> ThIdle]
    /\ RtOff
    /\ follow_process = FALSE
    /\ earlier = {}
    /\ ClientOff
    /\ sched = NoSched

th_frame == <<hf_api_key, client, calls, call_vars, ge_vars, pc, embed_requests, seen, rt_vars,
              earlier, follow_process, cache0, _client_instance, lru, ctor, constructed, op_vars>>

\* del cache[key]
CacheRemove(cache, key) == SelectSeq(cache, LAMBDA e : e.key # key)

\* list(cache.keys())[:n]
FirstKeys(cache, n) == [i \in 1..(IF Len(cache) < n THEN Len(cache) ELSE n) |-> cache[i].key]

\* repr(s) of a string: in double quotes when s holds a single quote and no
\* double one, else in single quotes; the quote used and the backslash get a
\* backslash, tab, newline and carriage return are written \t, \n and \r, and
\* the other characters that are not printable (below U+0020, U+007F to
\* U+00A0, U+00AD) are written \xhh
repr(s) ==
    LET quote == IF Contains(s, "'") /\ ~Contains(s, "\"") THEN "\"" ELSE "'"
        Code(c) == LET i == CHOOSE j \in 1..Len(CodeChars) : CharAt(CodeChars, j) = c
                   IN  IF i < 96 THEN i ELSE i + 1
        Hex(d) == CharAt("0123456789abcdef", d + 1)
        ReprChar(c) ==
            IF c = quote \/ c = "\\" THEN "\\" \o c
            ELSE IF c = "\t" THEN "\\t"
            ELSE IF c = "\n" THEN "\\n"
            ELSE IF c = "\r" THEN "\\r"
            ELSE IF Code(c) < 32 \/ (Code(c) >= 127 /\ Code(c) <= 160) \/ Code(c) = 173
            THEN "\\x" \o Hex(Code(c) \div 16) \o Hex(Code(c) % 16)
            ELSE c
        RECURSIVE Body(_)
        Body(u) == IF Len(u) = 0 THEN ""
                   ELSE IF Len(u) = 1 THEN ReprChar(u)
                   ELSE Body(SubSeq(u, 1, Len(u) \div 2))
                        \o Body(SubSeq(u, Len(u) \div 2 + 1, Len(u)))
    IN  quote \o Body(s) \o quote

\* str(KeyError(key)): the repr of the key
KeyErrorMessage(key) == repr(key)

\* the interpreter runs thread t for its next step; it takes the thread it
\* ran before off when that one is inside get_embedding and not waiting in
\* time.sleep
Run(t) ==
    LET TakesOff == /\ sched.running \notin {0, t}
                    /\ th[sched.running].pc \notin {"idle", "returned", "raised", "sleep"}
    IN  /\ TakesOff => sched.switches < MaxSwitches
        /\ sched' = [running |-> t,
                     switches |-> IF TakesOff THEN sched.switches + 1 ELSE sched.switches]

\* thread t calls get_embedding(text)
th_call(t, text) ==
    /\ th[t].pc = "idle"
    /\ Run(t)
    /\ th' = [th EXCEPT ![t] = [ThIdle EXCEPT !.pc = "check", !.text = text]]
    /\ UNCHANGED <<embedding_cache, th_frame>>

\* if not self.client; cache_key = text[:200]; if cache_key in self.embedding_cache
th_check(t) ==
    /\ th[t].pc = "check"
    /\ Run(t)
    /\ th' = [th EXCEPT ![t] =
                 IF ClientMissing THEN [@ EXCEPT !.pc = "returned", !.ret = None]
                 ELSE IF CacheHas(embedding_cache, cache_key(th[t].text))
                 THEN [@ EXCEPT !.pc = "hit"]
                 ELSE [@ EXCEPT !.pc = "provider", !.attempt = 0, !.backoff = InitialBackoff]]
    /\ UNCHANGED <<embedding_cache, th_frame>>

\* return self.embedding_cache[cache_key]: outside the try block, a KeyError
\* leaves get_embedding
th_hit(t) ==
    /\ th[t].pc = "hit"
    /\ Run(t)
    /\ th' = [th EXCEPT ![t] =
                 IF CacheHas(embedding_cache, cache_key(th[t].text))
                 THEN [@ EXCEPT !.pc = "returned",
                                !.ret = CacheGet(embedding_cache, cache_key(th[t].text))]
                 ELSE [@ EXCEPT !.pc = "raised"]]
    /\ UNCHANGED <<embedding_cache, th_frame>>

\* result = self.client.feature_extraction(...); embedding = result
th_provider(t) ==
    /\ th[t].pc = "provider"
    /\ Run(t)
    /\ th' = [th EXCEPT ![t] = [@ EXCEPT !.pc = "insert", !.embedding = ThreadVector,
                                         !.provider_calls = @ + 1]]
    /\ UNCHANGED <<embedding_cache, th_frame>>

\* self.embedding_cache[cache_key] = embedding
th_insert(t) ==
    /\ th[t].pc = "insert"
    /\ Run(t)
    /\ embedding_cache' = CachePut(embedding_cache, cache_key(th[t].text), th[t].embedding)
    /\ th' = [th EXCEPT ![t] = [@ EXCEPT !.pc = "len"]]
    /\ UNCHANGED th_frame

\* if len(self.embedding_cache) > 1000: ... else return embedding
th_len(t) ==
    /\ th[t].pc = "len"
    /\ Run(t)
    /\ th' = [th EXCEPT ![t] =
                 IF Len(embedding_cache) > CacheLimit
                 THEN [@ EXCEPT !.pc = "keys"]
                 ELSE [@ EXCEPT !.pc = "returned", !.ret = th[t].embedding]]
    /\ UNCHANGED <<embedding_cache, th_frame>>

\* oldest_keys = list(self.embedding_cache.keys())[:100]
th_keys(t) ==
    /\ th[t].pc = "keys"
    /\ Run(t)
    /\ th' = [th EXCEPT ![t] =
                 IF Len(embedding_cache) = 0
                 THEN [@ EXCEPT !.pc = "returned", !.ret = th[t].embedding]
                 ELSE [@ EXCEPT !.pc = "delete", !.k = 1,
                                !.oldest_keys = FirstKeys(embedding_cache, EvictCount)]]
    /\ UNCHANGED <<embedding_cache, th_frame>>

\* one turn of 'for key in oldest_keys: del self.embedding_cache[key]', with
\* the return after the last one; a KeyError is caught by the except clause
\* of the retry loop, which takes it for a provider error: it enters
\* time.sleep when an attempt is left and falls out of the loop to
\* 'return None' when none is
th_delete(t) ==
    /\ th[t].pc = "delete"
    /\ Run(t)
    /\ LET key == th[t].oldest_keys[th[t].k]
           last == th[t].k = Len(th[t].oldest_keys)
       IN  IF CacheHas(embedding_cache, key)
           THEN /\ embedding_cache' = CacheRemove(embedding_cache, key)
                /\ th' = [th EXCEPT ![t] =
                             IF last THEN [@ EXCEPT !.pc = "returned", !.ret = th[t].embedding]
                             ELSE [@ EXCEPT !.k = @ + 1]]
           ELSE /\ UNCHANGED embedding_cache
                /\ th' = [th EXCEPT ![t] =
                             IF th[t].attempt < retries
                             THEN [@ EXCEPT !.pc = "sleep", !.key_errors = @ + 1]
                             ELSE [@ EXCEPT !.pc = "returned", !.key_errors = @ + 1,
                                            !.ret = None]]
    /\ UNCHANGED th_frame

\* time.sleep returns in the except clause: 'continue' after the wait for a
\* message that reads like model loading or a rate limit, 'backoff *= 2'
\* after the wait for any other; then the next turn of the retry loop
th_sleep(t) ==
    /\ th[t].pc = "sleep"
    /\ Run(t)
    /\ LET key == th[t].oldest_keys[th[t].k]
       IN  th' = [th EXCEPT ![t] =
                     [@ EXCEPT !.pc = "provider",
                               !.attempt = @ + 1,
                               !.backoff = IF ErrorClass(KeyErrorMessage(key)) = "error"
                                           THEN @ * 2 ELSE @]]
    /\ UNCHANGED <<embedding_cache, th_frame>>

NextThreads ==
    \E t \in Threads :
        \/ \E text \in ThreadTexts(t) : th_call(t, text)
        \/ th_check(t)
        \/ th_hit(t)
        \/ th_provider(t)
        \/ th_insert(t)
        \/ th_len(t)
        \/ th_keys(t)
        \/ th_delete(t)
        \/ th_sleep(t)

SpecThreads == InitThreads /\ [][NextThreads]_vars

(***************************************************************************)
(* HuggingFaceSearchService() called by several threads of one process     *)
(* with HUGGINGFACE_API_KEY set: get_inference_client behind its lru_cache *)
(***************************************************************************)
InitClient ==
    /\ InitCall
    /\ hf_api_key = TRUE
    /\ client = FALSE
    /\ embedding_cache = <<>>
    /\ calls = 0
    /\ seen = NoSeen
    /\ RtOff
    /\ follow_process = FALSE
    /\ earlier = {}
    /\ th = [t \in Threads |-> ThIdle]
    /\ cache0 = <<>>
    /\ ClientOff
    /\ sched = NoSched

ctor_frame == <<svc_vars, call_vars, ge_vars, pc, embed_requests, seen, rt_vars,
                earlier, follow_process, th, cache0, sched, op_vars>>

\* __init__ up to the call self.client = get_inference_client(): the
\* lru_cache wrapper returns the cached value, or calls the function
ctor_init(t) ==
    /\ ctor[t].pc = "idle"
    /\ hf_api_key
    /\ ctor' = [ctor EXCEPT ![t] =
                   IF lru.full THEN [@ EXCEPT !.pc = "done", !.ret = lru.value, !.client = lru.value]
                   ELSE [@ EXCEPT !.pc = "body"]]
    /\ UNCHANGED <<ctor_frame, _client_instance, lru, constructed>>

\* if _client_instance is None: hf_api_key = os.getenv(...); if hf_api_key:
ctor_test(t) ==
    /\ ctor[t].pc = "body"
    /\ ctor' = [ctor EXCEPT ![t] =
                   IF _client_instance = NoClient /\ hf_api_key THEN [@ EXCEPT !.pc = "construct"]
                   ELSE [@ EXCEPT !.pc = "return"]]
    /\ UNCHANGED <<ctor_frame, _client_instance, lru, constructed>>

\* from huggingface_hub import InferenceClient; InferenceClient(token=hf_api_key):
\* a new object, or an exception that the except clause logs
ctor_construct(t, ok) ==
    /\ ctor[t].pc = "construct"
    /\ IF ok
       THEN /\ constructed' = constructed + 1
            /\ ctor' = [ctor EXCEPT ![t] = [@ EXCEPT !.pc = "store", !.new = constructed + 1]]
       ELSE /\ ctor' = [ctor EXCEPT ![t] = [@ EXCEPT !.pc = "return"]]
            /\ UNCHANGED constructed
    /\ UNCHANGED <<ctor_frame, _client_instance, lru>>

\* _client_instance = (the new object)
ctor_store(t) ==
    /\ ctor[t].pc = "store"
    /\ _client_instance' = ctor[t].new
    /\ ctor' = [ctor EXCEPT ![t] = [@ EXCEPT !.pc = "return"]]
    /\ UNCHANGED <<ctor_frame, lru, constructed>>

\* return _client_instance
ctor_return(t) ==
    /\ ctor[t].pc = "return"
    /\ ctor' = [ctor EXCEPT ![t] = [@ EXCEPT !.pc = "cache", !.ret = _client_instance]]
    /\ UNCHANGED <<ctor_frame, _client_instance, lru, constructed>>

\* the lru_cache wrapper after the function returned: it stores the result
\* unless the key was stored during the call, and returns the result;
\* self.client = (the result)
ctor_cache(t) ==
    /\ ctor[t].pc = "cache"
    /\ lru' = IF lru.full THEN lru ELSE [full |-> TRUE, value |-> ctor[t].ret]
    /\ ctor' = [ctor EXCEPT ![t] = [@ EXCEPT !.pc = "done", !.client = ctor[t].ret]]
    /\ UNCHANGED <<ctor_frame, _client_instance, constructed>>

NextClient ==
    \E t \in Constructors :
        \/ ctor_init(t)
        \/ ctor_test(t)
        \/ \E ok \in BOOLEAN : ctor_construct(t, ok)
        \/ ctor_store(t)
        \/ ctor_return(t)
        \/ ctor_cache(t)

SpecClient == InitClient /\ [][NextClient]_vars

(***************************************************************************)
(* Properties                                                              *)
(***************************************************************************)
IsError(b) == b.kind \in ErrorClasses
AllErrors(os) == \A i \in 1..Len(os) : IsError(os[i])
SortedBy(seq, field) == \A i \in 1..(Len(seq) - 1) : seq[i][field] >= seq[i + 1][field]
LexicallyScored(seq) ==
    \A i \in 1..Len(seq) : seq[i]["relevance_score"] = keyword_score(seq[i], query)
NoSimilarity(seq) == \A i \in 1..Len(seq) : "similarity_score" \notin DOMAIN seq[i]
Ids(seq) == {seq[i]["id"] : i \in 1..Len(seq)}

\* C1: when the query embedding was obtained and get_embedding came back
\* absent for at least one candidate, the call is ranked by the keyword
\* scorer and every returned record's relevance_score is its keyword score.
C1_AbsentCandidateFallsBackForAll ==
    (pc = "done" /\ Truthy(query_embedding) /\ cand_absent) =>
        (ranked_by = "keyword" /\ LexicallyScored(result))

\* C2: search_sections never raises to its caller: every call ends by
\* returning a list, and the list is empty whenever an exception occurred.
C2_NeverRaises ==
    pc = "done" =>
        /\ raised # "escaped"
        /\ DOMAIN result = 1..Len(result)
        /\ (fault # "none" => raised = "caught")
        /\ (raised # "no" => result = <<>>)

C2_Witness == pc = "done" /\ fault = "execute" /\ raised = "caught" /\ result = <<>>

\* C3: every returned list is sorted non-increasing by the active score
\* field: similarity_score after semantic ranking, relevance_score after
\* keyword ranking (also when keyword ranking is the fallback).
C3_SortedByActiveScore ==
    pc = "done" =>
        /\ (ranked_by = "semantic" => SortedBy(result, "similarity_score"))
        /\ (ranked_by = "keyword" => SortedBy(result, "relevance_score"))

\* keyword ranking after an exception during semantic scoring put the second
\* retrieved row first
C3_Witness ==
    /\ pc = "done"
    /\ ranked_by = "keyword"
    /\ Truthy(query_embedding)
    /\ Len(result) >= 2
    /\ result[1]["relevance_score"] > result[2]["relevance_score"]
    /\ result[1]["id"] = candidates[2]["id"]

\* C4: with max_results in 1..100 the returned list is no longer than
\* max_results nor than the candidate list, and it is the first max_results
\* records of the ranking of all the candidates.
C4_TruncatedAfterRanking ==
    (pc = "done" /\ max_results \in 1..100) =>
        /\ Len(result) <= max_results
        /\ Len(result) <= Len(candidates)
        /\ raised = "no" =>
               /\ Len(sections) = Len(candidates)
               /\ Ids(sections) = Ids(candidates)
               /\ result = SubSeq(sections, 1,
                                  IF Len(sections) < max_results THEN Len(sections)
                                  ELSE max_results)

\* a semantically ranked call cut to one record, which is not the first
\* retrieved one
C4_Witness ==
    /\ pc = "done"
    /\ ranked_by = "semantic"
    /\ max_results = 1
    /\ Len(candidates) >= 2
    /\ Len(result) = 1
    /\ result[1]["id"] # candidates[1]["id"]

\* C5: one get_embedding call makes at most 3 provider calls; it goes on to
\* the next attempt after an error on attempt 1 or 2 (it gives up only after
\* 3 errors), and when errors are followed by a vector it returns that vector.
C5_RetryToSuccess ==
    /\ Len(outcomes) <= 3
    /\ (pc = "provider" => (Len(outcomes) <= 2 /\ AllErrors(outcomes)))
    /\ (pc = "returned" /\ outcomes # <<>>) =>
           /\ AllErrors(SubSeq(outcomes, 1, Len(outcomes) - 1))
           /\ (outcomes[Len(outcomes)].kind = "vector" => ge_ret = outcomes[Len(outcomes)].value)
           /\ (IsError(outcomes[Len(outcomes)]) => Len(outcomes) = 3)

\* loading, loading, then a vector: returned after 3 attempts
C5_Witness ==
    /\ pc = "returned"
    /\ Len(outcomes) = 3
    /\ outcomes[1].kind = "loading"
    /\ outcomes[2].kind = "loading"
    /\ outcomes[3].kind = "vector"
    /\ ge_ret = outcomes[3].value
    /\ Truthy(ge_ret)

\* C6: after 3 failed attempts get_embedding returns None; when that happens
\* for the query, the whole candidate set is ranked by the keyword scorer and
\* no embedding is requested for any candidate.
C6_ExhaustedFallsBack ==
    /\ (pc = "returned" /\ Len(outcomes) = 3 /\ AllErrors(outcomes)) => ge_ret = None
    /\ (pc = "done" /\ query_exhausted) =>
           /\ raised = "no"
           /\ ranked_by = "keyword"
           /\ embed_requests = 1
           /\ Ids(sections) = Ids(candidates)
           /\ LexicallyScored(sections)
           /\ NoSimilarity(sections)

C6_Witness ==
    /\ pc = "done"
    /\ query_exhausted
    /\ Len(result) >= 2
    /\ result[1]["relevance_score"] > result[2]["relevance_score"]

\* what one step may do to the cache: nothing, append one entry below the
\* limit, or at the limit append one entry and drop the 100 oldest
CacheStep ==
    LET old == embedding_cache
        new == embedding_cache'
    IN  \/ new = old
        \/ /\ Len(old) < 1000
           /\ new = Append(old, new[Len(new)])
           /\ new[Len(new)].key = Prefix(ge_text, 200)
        \/ /\ Len(old) = 1000
           /\ Len(new) = 901
           /\ \A i \in 1..900 : new[i] = old[i + 100]
           /\ new[901].key = Prefix(ge_text, 200)

\* a cache hit leaves the cache, and so the eviction order, as it was
HitStep ==
    (pc = "get_embedding" /\ CacheHas(embedding_cache, Prefix(ge_text, 200)))
        => embedding_cache' = embedding_cache

\* C7: the cache never holds more than 1000 entries between calls; the
\* insertion that would make it 1001 removes exactly the 100 oldest entries
\* and keeps the new one (901 left); a hit does not change the order.
C7_CacheFifo ==
    /\ [](Len(embedding_cache) <= 1000)
    /\ [][CacheStep /\ HitStep]_vars

\* the oldest key was hit, and the next insertion evicted it all the same
C7_Witness ==
    /\ pc = "returned"
    /\ seen.text = "1"
    /\ Len(embedding_cache) = 901
    /\ ~CacheHas(embedding_cache, "1")
    /\ embedding_cache[1].key = "101"
    /\ embedding_cache[901].key = Prefix(ge_text, 200)

\* the entry that the remembered call get_embedding(seen.text) left is cached
SeenEntryCached ==
    /\ seen # NoSeen
    /\ seen.ret # None
    /\ CacheHas(embedding_cache, cache_key(seen.text))
    /\ CacheGet(embedding_cache, cache_key(seen.text)) = seen.ret

\* a call get_embedding(t2) made while the entry of t1 is cached, t2 and t1
\* having the same first 200 characters, returns t1's value at once
SamePrefixCall ==
    (/\ pc = "get_embedding"
     /\ ge_for = "direct"
     /\ SeenEntryCached
     /\ Prefix(ge_text, 200) = Prefix(seen.text, 200))
    => (pc' = "returned" /\ outcomes' = <<>> /\ ge_ret' = seen.ret)

\* C8: once get_embedding(t1) returned a vector, a call get_embedding(t2) with
\* t2[:200] = t1[:200], made while t1's entry is cached, returns the same
\* value without a provider call.
C8_PrefixKey == [][SamePrefixCall]_vars

\* two texts of 201 characters that differ in the last one only
C8_Witness ==
    /\ pc = "returned"
    /\ ge_for = "direct"
    /\ SeenEntryCached
    /\ Len(ge_text) > 200
    /\ ge_text # seen.text
    /\ Prefix(ge_text, 200) = Prefix(seen.text, 200)
    /\ outcomes = <<>>
    /\ ge_ret = seen.ret

\* C9: when retrieval gives no candidate, search_sections returns the empty
\* list with no get_embedding call (so no provider call) and no scoring.
C9_EmptyCandidates ==
    /\ (pc = "done" /\ fault = "none" /\ candidates = <<>>) =>
           (result = <<>> /\ embed_requests = 0 /\ ranked_by = "none")
    /\ (ge_for \in {"query", "section"} /\ pc \in {"get_embedding", "provider", "returned"}) =>
           candidates # <<>>

C9_Witness ==
    /\ pc = "done"
    /\ fault = "none"
    /\ hf_api_key
    /\ client
    /\ query = "cyber"
    /\ candidates = <<>>
    /\ result = <<>>

\* C10: without the credential no provider call is ever made, get_embedding
\* returns None, and every search is ranked by the keyword scorer: no
\* returned record carries similarity_score, and the call does not fail.
C10_NoCredentialKeywordOnly ==
    ~hf_api_key =>
        /\ pc # "provider"
        /\ outcomes = <<>>
        /\ (pc = "returned" => ge_ret = None)
        /\ pc = "done" =>
               /\ ranked_by # "semantic"
               /\ NoSimilarity(result)
               /\ LexicallyScored(result)
               /\ (fault = "none" => (raised = "no" /\ Ids(sections) = Ids(candidates)))

C10_Witness ==
    /\ ~hf_api_key
    /\ pc = "done"
    /\ ranked_by = "keyword"
    /\ Len(result) >= 2
    /\ result[1]["relevance_score"] > result[2]["relevance_score"]

HasSimilarity(seq) == \A i \in 1..Len(seq) : "similarity_score" \in DOMAIN seq[i]

\* C11: every returned record carries relevance_score; within one returned
\* list similarity_score is on all records or on none, and a list that ended
\* up ranked by the keyword scorer (also after an exception part-way through
\* the loop over the candidates) has no record with similarity_score.
C11_SimilarityOnlyWhenSemantic ==
    pc = "done" =>
        /\ \A i \in 1..Len(result) : "relevance_score" \in DOMAIN result[i]
        /\ (HasSimilarity(result) \/ NoSimilarity(result))
        /\ (ranked_by = "keyword" => NoSimilarity(result))
        /\ (ranked_by = "semantic" => HasSimilarity(result))

\* key occurs in text, letter case aside
OccursIgnoringCase(key, text) ==
    \E i \in 0..(Len(text) - Len(key)) : lower(SubSeq(text, i + 1, i + Len(key))) = lower(key)

\* the table entries whose key occurs in text
MatchingEntries(text) ==
    {i \in 1..Len(expansions) : OccursIgnoringCase(expansions[i][1], text)}

\* C12: _expand_query returns the expansion of the first key of the table, in
\* its iteration order, that occurs in the query letter case aside; when no
\* key occurs it returns the query as it is.
C12_FirstMatchWins ==
    rt_pc \in {"expanded", "built"} =>
        LET hits == MatchingEntries(rt_query)
        IN  IF hits = {} THEN rt_expanded = rt_query
            ELSE rt_expanded = expansions[CHOOSE i \in hits : \A j \in hits : i <= j][2]

\* two keys occur in the query, in upper case; the earlier one decides
C12_Witness ==
    /\ rt_pc = "expanded"
    /\ rt_query = "Data THEFT"
    /\ Cardinality(MatchingEntries(rt_query)) = 2
    /\ rt_expanded = "theft electronic computer document record"

\* C13: searching with the expanded text of a query as the query gives a set
\* of search terms that contains every search term of the first search:
\* expanding an expanded text removes no term.
C13_ExpansionKeepsTerms ==
    (rt_prev.set /\ rt_pc = "built") => SeqToSet(rt_prev.terms) \subseteq SeqToSet(rt_terms)

\* C14: the query "cyber" is expanded to "cybercrime electronic computer
\* digital online document record", and its retrieval (no filter) returns a
\* candidate titled "Tampering with Computer Source Documents", whose text
\* has no "cyber" in it.
C14_CyberExpanded ==
    rt_query = "cyber" =>
        /\ (rt_pc \in {"expanded", "built", "fetched"} =>
                rt_expanded = "cybercrime electronic computer digital online document record")
        /\ (rt_pc = "fetched" /\ rt_filters = NoFilters =>
                \E i \in 1..Len(rt_rows) :
                    /\ rt_rows[i]["title"] = "Tampering with Computer Source Documents"
                    /\ ~OccursIgnoringCase("cyber", rt_rows[i]["title"])
                    /\ ~OccursIgnoringCase("cyber", rt_rows[i]["description"])
                    /\ ~OccursIgnoringCase("cyber", rt_rows[i]["category"]))

\* C15: the expanded query serves retrieval only: the query-embedding
\* request and the keyword scorer get the caller's query, and the query in
\* the route handler's response is the caller's query.
C15_OriginalQueryRanks ==
    /\ (pc \in {"get_embedding", "provider", "returned"} /\ ge_for = "query") => ge_text = query
    /\ (pc \in {"done", "responded"} /\ ranked_by # "none") => rank_query = query
    /\ (pc \in {"done", "responded"} /\ ranked_by = "keyword") => LexicallyScored(sections)
    /\ pc = "responded" => (response.query = query /\ response.results = result)

\* a query whose rows were found through its expansion only, and whose
\* keyword scores are not those the expanded text would give
C15_Witness ==
    /\ pc = "responded"
    /\ query = "hacking"
    /\ _expand_query(query) # query
    /\ ranked_by = "keyword"
    /\ response.query = "hacking"
    /\ Len(result) >= 1
    /\ \A i \in 1..Len(result) :
           /\ ~OccursIgnoringCase(query, SectionText(result[i]))
           /\ result[i]["relevance_score"] # keyword_score(result[i], _expand_query(query))

\* the whole words of text: its maximal runs of characters other than space
WordsOf(text) ==
    {SubSeq(text, i, j) : <<i, j>> \in
        {w \in (1..Len(text)) \X (1..Len(text)) :
            /\ w[1] <= w[2]
            /\ \A k \in w[1]..w[2] : CharAt(text, k) # " "
            /\ (w[1] = 1 \/ CharAt(text, w[1] - 1) = " ")
            /\ (w[2] = Len(text) \/ CharAt(text, w[2] + 1) = " ")}}

\* the points of one candidate for query q, as the scheme states them
Points(sec, q) ==
      (IF OccursIgnoringCase(q, sec["title"]) THEN 50 ELSE 0)
    + (IF OccursIgnoringCase(RemoveSpaces(q), RemoveSpaces(sec["title"])) THEN 30 ELSE 0)
    + 10 * Cardinality(WordsOf(lower(q)) \cap WordsOf(lower(sec["title"])))
    + (IF OccursIgnoringCase(q, sec["description"]) THEN 15 ELSE 0)
    + 5 * Cardinality(WordsOf(lower(q)) \cap WordsOf(lower(sec["description"])))
    + (IF OccursIgnoringCase(q, sec["category"]) THEN 8 ELSE 0)

\* C16: keyword_rank sets relevance_score to 50 [q in title] + 30 [q without
\* spaces in title without spaces] + 10 per distinct term of q that is a whole
\* word of the title + 15 [q in description] + 5 per distinct term of q that
\* is a whole word of the description + 8 [q in category], all lowercased.
C16_PointScheme ==
    rt_pc \in {"ranked", "reranked", "repeated"} =>
        /\ Len(rt_ranked) = Len(rt_rows)
        /\ \A i \in 1..Len(rt_ranked) :
               rt_ranked[i]["relevance_score"] = Points(rt_ranked[i], rt_query)
        /\ \A i \in 1..Len(rt_rows) :
               rt_rows[i]["relevance_score"] = Points(rt_rows[i], rt_query)

\* a query that repeats a term: the term counts once, 10 in the title of one
\* candidate and 5 in the description of the other
C16_Witness ==
    /\ rt_pc = "ranked"
    /\ rt_query = "murder murder"
    /\ Len(rt_ranked) = 2
    /\ rt_ranked[1]["title"] = "Punishment for Murder"
    /\ rt_ranked[1]["relevance_score"] = 10
    /\ rt_ranked[2]["relevance_score"] = 5

\* where the record with this id stands in seq
PositionOf(seq, id) == CHOOSE i \in 1..Len(seq) : seq[i]["id"] = id

\* records of equal relevance_score stand in out in the order they have in inp
TiesKeepOrder(inp, out) ==
    \A i, j \in 1..Len(out) :
        (i < j /\ out[i]["relevance_score"] = out[j]["relevance_score"])
            => PositionOf(inp, out[i]["id"]) < PositionOf(inp, out[j]["id"])

\* C17: keyword_rank run twice on the same candidates and query gives the
\* same scores in the same order, run on its own output it changes nothing,
\* and candidates of equal relevance_score keep their retrieval order.
C17_DeterministicStable ==
    /\ rt_pc \in {"ranked", "reranked", "repeated"} =>
           (Ids(rt_ranked) = Ids(rt_rows) /\ TiesKeepOrder(rt_rows, rt_ranked))
    /\ rt_pc \in {"reranked", "repeated"} => rt_again = rt_ranked

\* four candidates, two pairs of equal score; the second pair goes first and
\* each pair keeps its order; the second run gave the same list
C17_Witness ==
    /\ rt_pc = "repeated"
    /\ rt_again = rt_ranked
    /\ Len(rt_ranked) = 4
    /\ rt_ranked[1]["relevance_score"] = rt_ranked[2]["relevance_score"]
    /\ rt_ranked[2]["relevance_score"] > rt_ranked[3]["relevance_score"]
    /\ rt_ranked[3]["relevance_score"] = rt_ranked[4]["relevance_score"]
    /\ rt_ranked[1]["id"] = rt_rows[3]["id"]
    /\ rt_ranked[2]["id"] = rt_rows[4]["id"]
    /\ rt_ranked[3]["id"] = rt_rows[1]["id"]
    /\ rt_ranked[4]["id"] = rt_rows[2]["id"]

\* the query occurs in the title of sec
InTitle(sec, q) == OccursIgnoringCase(q, sec["title"])

\* the query occurs in the description of sec, and in no other scored field
InDescriptionOnly(sec, q) ==
    /\ OccursIgnoringCase(q, sec["description"])
    /\ ~OccursIgnoringCase(q, sec["title"])
    /\ ~OccursIgnoringCase(q, sec["category"])

\* C18: under keyword ranking with a one-word query, a candidate whose title
\* contains the query has relevance_score >= 50 and stands before every
\* candidate that matches the query in its description only.
C18_TitleMatchOutranks ==
    (pc \in {"done", "responded"} /\ ranked_by = "keyword" /\ Cardinality(WordsOf(query)) = 1) =>
        \A i \in 1..Len(sections) :
            InTitle(sections[i], query) =>
                /\ sections[i]["relevance_score"] >= 50
                /\ \A j \in 1..Len(sections) :
                       InDescriptionOnly(sections[j], query) =>
                           /\ i < j
                           /\ sections[i]["relevance_score"] > sections[j]["relevance_score"]

\* no credential, query "murder": "Punishment for Murder" was retrieved
\* second and is returned first, before the description-only match
C18_Witness ==
    /\ pc = "done"
    /\ ~hf_api_key
    /\ query = "murder"
    /\ Len(result) = 2
    /\ result[1]["title"] = "Punishment for Murder"
    /\ result[1]["relevance_score"] >= 50
    /\ InDescriptionOnly(result[2], query)
    /\ candidates[1]["id"] = result[2]["id"]

\* the fixed pieces an SQL text of search_sections is made of, for a dialect
SqlFragments(is_pg) ==
    {BaseSql, " AND (", " OR ", ")", NumberCondition(is_pg), TextCondition(is_pg)}
    \cup {" AND " \o FilterColumns[i] \o " = " \o (IF is_pg THEN "%s" ELSE "?") :
              i \in 1..Len(FilterColumns)}

RECURSIVE MadeOf(_, _, _)
\* text[pos..] is a concatenation of pieces
MadeOf(text, pos, pieces) ==
    \/ pos > Len(text)
    \/ \E f \in pieces :
           /\ pos + Len(f) - 1 <= Len(text)
           /\ SubSeq(text, pos, pos + Len(f) - 1) = f
           /\ MadeOf(text, pos + Len(f), pieces)

\* how many times mark occurs in text
Occurrences(mark, text) ==
    Cardinality({i \in 1..(Len(text) - Len(mark) + 1) : SubSeq(text, i, i + Len(mark) - 1) = mark})

\* the number of parameters the terms and the filters call for
ParamsCalledFor(ts, filters) ==
    Cardinality({i \in 1..Len(ts) : isdigit(ts[i])})
    + 3 * Cardinality({i \in 1..Len(ts) : ~isdigit(ts[i])})
    + Cardinality({i \in 1..Len(FilterColumns) : FilterApplied(filters, FilterColumns[i])})

\* C19: the SQL text search_sections builds is made of fixed fragments and
\* placeholders only, whatever the query and the filter values; it has as
\* many placeholders as the parameter list has values: 1 per numeric term, 3
\* per other term, 1 per applied filter, the filter values last and in order.
C19_ParametersOnly ==
    rt_pc \in {"built", "fetched"} =>
        LET ph == IF is_postgres THEN "%s" ELSE "?"
            filter_values == [i \in 1..Len(AppliedFilters(rt_filters)) |->
                                 rt_filters[AppliedFilters(rt_filters)[i]]]
            term_count == Len(rt_params) - Len(filter_values)
        IN  /\ MadeOf(rt_sql, 1, SqlFragments(is_postgres))
            /\ Occurrences(ph, rt_sql) = Len(rt_params)
            /\ Len(rt_params) = ParamsCalledFor(rt_terms, rt_filters)
            /\ SubSeq(rt_params, term_count + 1, Len(rt_params)) = filter_values
            /\ \A i \in 1..term_count :
                   \E t \in SeqToSet(rt_terms) : rt_params[i] = "%" \o t \o "%"

\* a text term, a numeric term and four filters, in the PostgreSQL dialect
C19_Witness ==
    /\ rt_pc = "built"
    /\ is_postgres
    /\ rt_terms = <<"ipc", "302">>
    /\ rt_params = <<"%ipc%", "%ipc%", "%ipc%", "%302%",
                     "Body", "302", "Non-bailable", "Cognizable">>
    /\ Occurrences("%s", rt_sql) = 8

\* a search token matches the row: a numeric token is contained in
\* section_number, any other token is contained, letter case aside, in
\* title, description or category
TokenContained(row, t) ==
    IF isdigit(t) THEN OccursIgnoringCase(t, row["section_number"])
    ELSE \/ OccursIgnoringCase(t, row["title"])
         \/ OccursIgnoringCase(t, row["description"])
         \/ OccursIgnoringCase(t, row["category"])

\* every filter that is present and not empty equals the row's column
FiltersHold(row, filters) ==
    \A col \in {"category", "section_number", "bailable", "cognizable"} :
        (col \in DOMAIN filters /\ filters[col] # "") => row[col] = filters[col]

\* C20: with search tokens, retrieval selects a row iff at least one token
\* matches it (a numeric token contained in section_number, another token
\* contained letter case aside in title, description or category) and every
\* filter among category, section_number, bailable, cognizable that is
\* present and not empty equals the row's column.
C20_RetrievalPredicate ==
    (rt_pc = "fetched" /\ Len(rt_terms) > 0) =>
        \A r \in 1..Len(law_sections) :
            (law_sections[r]["id"] \in Ids(rt_rows))
                <=> /\ \E k \in 1..Len(rt_terms) : TokenContained(law_sections[r], rt_terms[k])
                    /\ FiltersHold(law_sections[r], rt_filters)

\* C21: for the same table, query and filters the SQLite dialect and the
\* PostgreSQL dialect retrieve the same candidates, and the ranking returns
\* the same records with the same scores.
C21_DialectsAgree ==
    LET other == FetchRows(law_sections, rt_query, rt_filters, ~is_postgres)
    IN  /\ rt_pc = "fetched" => rt_rows = other
        /\ rt_pc = "ranked" => rt_ranked = keyword_rank(other, rt_query)

\* C22: the search terms are the words of the lowercased expanded query that
\* are no stop-word and longer than 2 characters; when no word is left, the
\* one search term is the raw query, unsplit.
C22_FallbackUnsplit ==
    LET words == split(lower(rt_expanded))
        kept == SelectSeq(words, LAMBDA w : w \notin stop_words /\ Len(w) > 2)
    IN  (rt_pc = "built" /\ Len(words) > 0) =>
            rt_terms = IF Len(kept) > 0 THEN kept ELSE <<rt_query>>

\* an embedding request of a search call is under way
Embedding == pc \in {"get_embedding", "provider", "returned"} /\ ge_for \in {"query", "section"}

\* C23: the connection a search call opened is closed before scoring begins:
\* no embedding request is made, and no score is given, while it is open.
C23_ClosedBeforeScoring ==
    /\ Embedding => ~conn_open
    /\ ranked_by # "none" => ~conn_open

\* the provider is being asked for the embedding of a candidate
C23_Witness ==
    /\ pc = "provider"
    /\ ge_for = "section"
    /\ Len(candidates) >= 2
    /\ ~conn_open

\* C24: the embedding cache is shared by the requests of a process: the
\* provider is not asked for a text whose key an earlier request of the same
\* process cached.
C24_ProcessWideCache ==
    (pc = "provider" /\ ge_for \in {"query", "section"}) => cache_key(ge_text) \notin earlier

\* get_embedding(text) run alone on cache c, the provider returning ThreadVector
CallAlone(c, text) ==
    IF CacheHas(c, cache_key(text)) THEN c
    ELSE CacheTrim(CachePut(c, cache_key(text), ThreadVector))

\* C25: cache mutation is synchronized: under any interleaving of two
\* get_embedding calls on one cache no deletion targets a key the other call
\* removed (no KeyError), no call asks the provider more than once, and when
\* both have returned the cache is what the two calls leave when run one
\* after the other, each overflow having removed the 100 oldest entries.
C25_CacheMutationAtomic ==
    /\ \A t \in Threads :
           /\ th[t].key_errors = 0
           /\ th[t].provider_calls <= 1
    /\ (\A t \in Threads : th[t].pc = "returned") =>
           \/ embedding_cache = CallAlone(CallAlone(cache0, th[1].text), th[2].text)
           \/ embedding_cache = CallAlone(CallAlone(cache0, th[2].text), th[1].text)

\* C26: with a credential configured at most one InferenceClient is ever
\* constructed in a process, and all the service instances hold the same
\* client, whatever the interleaving of their constructions.
C26_OneClientPerProcess ==
    /\ constructed <= 1
    /\ \A t1 \in Constructors, t2 \in Constructors :
           (ctor[t1].pc = "done" /\ ctor[t2].pc = "done") => ctor[t1].client = ctor[t2].client

\* C27: within one get_embedding call the wait after a loading or rate-limit
\* error at attempt k (k = 0, 1) is 2 * 2^k seconds, whatever errors came
\* before; there is no wait after the last attempt.
C27_WaitDoubles ==
    /\ Len(slept) <= retries
    /\ Len(slept) <= Len(outcomes)
    /\ \A i \in 1..Len(slept) :
           outcomes[i].kind \in {"loading", "rate_limit"} => slept[i] = InitialBackoff * Pow2(i - 1)

\* C28: the connection search_sections, get_section_by_code, get_categories
\* or get_suggestions opened is closed by the time the operation returns, also
\* when executing the query or reading the rows raised and the operation
\* returned its empty fallback.
C28_ConnectionClosedOnReturn ==
    /\ pc \in {"done", "suggested", "responded"} => ~conn_open
    /\ pc \in {"suggested", "responded", "op_returned"} => ~op_conn_open

\* C29: for a query of 3 or more characters the table is never retrieved
\* without a search-term condition: there is at least one search term, and
\* every retrieved record matches one of them in title, description, category
\* or section_number.
C29_TermConditionAlways ==
    (rt_pc = "fetched" /\ Len(rt_query) >= 3) =>
        /\ Len(rt_terms) > 0
        /\ \A i \in 1..Len(rt_rows) :
               \E k \in 1..Len(rt_terms) : TermMatches(rt_rows[i], rt_terms[k], is_postgres)

\* a step of get_embedding changes the cache only by storing, under the key
\* of its text, the vector it returns; a step that returns None leaves it
CacheOnlyStoresVectors ==
    /\ (pc \in {"get_embedding", "provider"} /\ embedding_cache' # embedding_cache) =>
           /\ pc' = "returned"
           /\ ge_ret' # None
           /\ outcomes'[Len(outcomes')].kind = "vector"
           /\ embedding_cache' = CacheTrim(CachePut(embedding_cache, cache_key(ge_text), ge_ret'))
    /\ (pc \in {"get_embedding", "provider"} /\ pc' = "returned" /\ ge_ret' = None) =>
           embedding_cache' = embedding_cache

\* get_embedding is entered for the text of the call made just before on the
\* same instance, which returned None
CalledAgainAfterAbsent ==
    /\ pc = "get_embedding"
    /\ ge_for = "direct"
    /\ seen # NoSeen
    /\ seen.ret = None
    /\ seen.n = calls - 1
    /\ ge_text = seen.text

\* C30 as stated: the cache only ever takes vectors a provider call returned,
\* an absent outcome (retries exhausted, unexpected result type, no client)
\* leaves the cache as it is, and the next call for the same text contacts
\* the provider again.
C30_AbsentNeverCached ==
    [][CacheOnlyStoresVectors /\ (CalledAgainAfterAbsent => pc' = "provider")]_vars

\* C30, amended: the cache only ever takes vectors a provider call returned
\* and an absent outcome leaves the cache as it is; the next call for the
\* same text contacts the provider again when the instance has a client, and
\* returns None without contacting it when it has none.
C30_AbsentNeverCachedWithClient ==
    [][/\ CacheOnlyStoresVectors
       /\ (CalledAgainAfterAbsent /\ client) => pc' = "provider"
       /\ (CalledAgainAfterAbsent /\ ~client) => (pc' = "returned" /\ ge_ret' = None)]_vars

\* the provider is asked again for a text whose call just before gave up
C30_Witness ==
    /\ pc = "provider"
    /\ ge_for = "direct"
    /\ client
    /\ seen.ret = None
    /\ seen.text = ge_text
    /\ seen.n = calls - 1
    /\ embedding_cache = <<>>
    /\ outcomes = <<>>

====
